---- MODULE Spec2Model ----
(***************************************************************************)
(* A model of the resource and lifecycle management of glgpu's Vulkan      *)
(* backend: the Device Context (VulkanRenderBackend) with its device       *)
(* selection and teardown, the Deletion Queue, the Paged Resource Store,   *)
(* the Binding-Set Pool Cache, the Swapchain Controller, and the threads   *)
(* that submit to the queues and the immediate-submit channels.            *)
(***************************************************************************)
EXTENDS Integers, Sequences, FiniteSets, TLC

VARIABLES
    s_initialized,  \* vk_backend.cpp:48, the process-wide flag
    aborted,        \* the process was terminated by a fatal assertion or a crash
    build,          \* the build flavour: [debug |-> GL_DEBUG_BUILD, win32 |-> _WIN32]
    backends,       \* the VulkanRenderBackend objects the caller holds
    lastOp,         \* the operation that ran last and how it ended
    trace,          \* the native calls the last operation made, in order
    inFlight,       \* submissions the GPU has not finished yet
    dq,             \* a DeletionQueue: the registered actions, oldest first
    dqBatch,        \* what that queue held when flush() was last called
    dqRan,          \* the actions the last flush() executed, in order
    resources_allocator,    \* the Paged Resource Store: its pages and free list
    handles,        \* per slot of the store, the live handles that point to it
    ever_freed,     \* the slots that free() has returned to the store so far
    descriptor_set_pools,   \* per descriptor pool: absent, or its key and counter
    outstanding,    \* per descriptor pool, the sets allocated from it and not freed
    swapchains,     \* the VulkanSwapchain objects the caller holds
    vk_objects,     \* the native swapchains and image views that are live
    before,         \* the swapchain as the last swapchain handler found it
    resized,        \* the swapchains that a resize has completed on
    call_args,      \* the arguments of the function exercised on its own
    call_ret,       \* what that function returned
    mutexes,        \* per std::mutex of the backend, the thread holding it
    imm,            \* imm_transfer and imm_graphics: fence and command buffer
    threads,        \* per caller thread, the call it is in and how far it got
    gpu_work        \* the submissions a queue has taken and not finished

ctxVars == <<s_initialized, aborted, build, backends, lastOp, trace, inFlight>>
dqVars == <<dq, dqBatch, dqRan>>
storeVars == <<resources_allocator, handles, ever_freed>>
poolVars == <<descriptor_set_pools, outstanding>>
swapVars == <<swapchains, vk_objects, before, resized>>
fnVars == <<call_args, call_ret>>
threadVars == <<mutexes, imm, threads, gpu_work>>
vars == <<ctxVars, dqVars, storeVars, poolVars, swapVars, fnVars, threadVars>>

(***************************************************************************)
(* Bounds of the model.                                                    *)
(***************************************************************************)
MaxBackends == 2
MaxDevices == 2
MaxInFlight == 1
MaxQueue == 3
MaxPages == 2
PageSize == 2
MaxPools == 2
MaxDrift == 2
MaxSwapchains == 1
MaxModes == 3
MaxThreads == 2
MaxBindingTypes == 2
MaxMemoryTypes == 2
MaxFormats == 3
MaxImageCount == 4
MaxImageSize == 8

Backends == 1..MaxBackends
Slots == 1..(MaxPages * PageSize)
PoolIds == 1..MaxPools
SwapchainIds == 1..MaxSwapchains
Threads == 1..MaxThreads
VK_NULL_HANDLE == 0
\* The largest unsigned 32-bit value, held as the largest integer TLC has: it
\* lies above every extent, count and index the model uses, and adding one to
\* it wraps to zero.
UINT32_MAX == 2147483647
Extent(w, h) == [width |-> w, height |-> h]
AbsentSwapchain ==
    [state |-> "absent", vk_swapchain |-> VK_NULL_HANDLE, format |-> "UNDEFINED",
     color_space |-> "SRGB_NONLINEAR", extent |-> Extent(0, 0), images |-> <<>>,
     image_index |-> 0, initialized |-> FALSE]
MAX_UNIFORM_POOL_ELEMENT == 65535
PoolKeys == {"k1", "k2"}
NoPool == [key |-> "none", count |-> 0]

(***************************************************************************)
(* Physical devices.  A queue family is the set of its capabilities:       *)
(* "G" graphics, "T" transfer, "C" compute, and "P" when                   *)
(* vkGetPhysicalDeviceSurfaceSupportKHR reports present support.           *)
(***************************************************************************)
NoFamily == -1

Device(nm, dynExt, swapExt, feats, surfCaps, discrete, dim, fams) ==
    [name |-> nm, dynamic_rendering_ext |-> dynExt, swapchain_ext |-> swapExt,
     features |-> feats, surface_caps |-> surfCaps, discrete |-> discrete,
     maxImageDimension2D |-> dim, families |-> fams]

AllCaps == {"G", "T", "C", "P"}

DeviceCatalog ==
    { Device("discrete", TRUE, TRUE, TRUE, TRUE, TRUE, 4096,
             <<AllCaps, {"T"}, {"C", "T"}>>),
      Device("integrated", TRUE, TRUE, TRUE, TRUE, FALSE, 16384, <<AllCaps>>),
      Device("no_dynamic_rendering", FALSE, TRUE, TRUE, TRUE, TRUE, 16384, <<AllCaps>>),
      Device("no_swapchain_ext", TRUE, FALSE, TRUE, TRUE, TRUE, 16384, <<AllCaps>>),
      Device("no_features", TRUE, TRUE, FALSE, TRUE, TRUE, 16384, <<AllCaps>>),
      Device("no_formats", TRUE, TRUE, TRUE, FALSE, TRUE, 16384, <<AllCaps>>),
      Device("no_graphics", TRUE, TRUE, TRUE, TRUE, TRUE, 16384, <<{"C", "T"}>>),
      Device("no_present", TRUE, TRUE, TRUE, TRUE, FALSE, 8192, <<{"G", "T", "C"}>>) }

\* What a read through a dangling iterator can leave in physical_device.
GarbageDevice == Device("garbage", FALSE, FALSE, FALSE, FALSE, FALSE, 0, <<>>)

DeviceLists ==
    UNION { [1..n -> DeviceCatalog] : n \in 0..MaxDevices }

(***************************************************************************)
(* RenderBackendCreateInfo and the native calls that can fail.             *)
(***************************************************************************)
FeatureBits == {"SWAPCHAIN", "ENSURE_SURFACE_SUPPORT", "DISTINCT_COMPUTE_QUEUE"}

CreateInfos ==
    [required_features : SUBSET FeatureBits,
     native_connection_handle : BOOLEAN,
     native_window_handle : BOOLEAN]

\* The first native call of the constructor that fails, if any.
NativeFailures ==
    {"none", "vkCreateInstance", "createSurface", "createMessenger", "vkCreateDevice"}

EmptyIndices ==
    [graphics_family |-> NoFamily, present_family |-> NoFamily,
     transfer_family |-> NoFamily, compute_family |-> NoFamily]

AbsentBackend ==
    [state |-> "absent", required_features |-> {},
     surface |-> "null", physical_device |-> GarbageDevice,
     indices |-> EmptyIndices, queue_families |-> {},
     swapchain_supported |-> FALSE, debug_messenger |-> "none",
     deletion_queue |-> <<>>, small_allocs_pools |-> {}]

(***************************************************************************)
(* GL_ASSERT(false, ...) and DeletionQueue come from headers that are not  *)
(* part of the sources at hand; they follow the design document: a fatal   *)
(* error terminates the process, and flush() runs the registered actions   *)
(* newest first and then clears the queue.                                 *)
(***************************************************************************)
push_function(q, f) == Append(q, f)

\* A flush that walks the actions oldest first.
flush_order_forward(q) == q

RECURSIVE flush_order(_)
flush_order(q) ==
    IF q = <<>> THEN <<>>
    ELSE <<q[Len(q)]>> \o flush_order(SubSeq(q, 1, Len(q) - 1))

(***************************************************************************)
(* Device selection.                                                       *)
(***************************************************************************)
DEVICE_EXTENSIONS_REQUIRED == {"VK_KHR_dynamic_rendering"}

DeviceExtensions(dev) ==
    (IF dev.dynamic_rendering_ext THEN {"VK_KHR_dynamic_rendering"} ELSE {})
    \cup (IF dev.swapchain_ext THEN {"VK_KHR_swapchain"} ELSE {})

_check_device_extension_support(dev, extensions) ==
    extensions \subseteq DeviceExtensions(dev)

\* Any family with the compute bit is taken, distinct or not.
compute_eligible_any(q, distinct_compute_queue) == "C" \in q

\* The family may become the compute family: it has the compute bit and, when
\* a distinct compute queue is required, lacks the graphics bit.
compute_eligible(q, distinct_compute_queue) == "C" \in q /\ (~distinct_compute_queue \/ "G" \notin q)

\* One pass of the loop of _find_queue_families over family i (1-based here,
\* the index it stores is i - 1).
RECURSIVE find_queue_families_loop(_, _, _, _, _)
find_queue_families_loop(fams, i, indices, query_present, distinct_compute_queue) ==
    IF i > Len(fams) THEN indices
    ELSE
        LET q == fams[i]
            a == IF "G" \in q
                 THEN [indices EXCEPT !.graphics_family = i - 1] ELSE indices
            b == IF "T" \in q /\ a.transfer_family = NoFamily
                 THEN [a EXCEPT !.transfer_family = i - 1] ELSE a
            c == IF compute_eligible(q, distinct_compute_queue)
                 THEN [b EXCEPT !.compute_family = i - 1] ELSE b
            d == IF query_present /\ "P" \in q
                 THEN [c EXCEPT !.present_family = i - 1] ELSE c
        IN  find_queue_families_loop(fams, i + 1, d, query_present,
                                     distinct_compute_queue)

_find_queue_families(dev, flags, surface) ==
    find_queue_families_loop(dev.families, 1, EmptyIndices,
        "ENSURE_SURFACE_SUPPORT" \in flags /\ surface # "null",
        "DISTINCT_COMPUTE_QUEUE" \in flags)

is_complete(indices, p_surface_support, p_distinct_compute_queue) ==
    /\ indices.graphics_family # NoFamily
    /\ indices.transfer_family # NoFamily
    /\ (p_surface_support => indices.present_family # NoFamily)
    /\ (p_distinct_compute_queue => indices.compute_family # NoFamily)

DiscreteBonus == 1000

_rate_device_suitability(dev, required_extensions, flags, surface) ==
    IF ~_check_device_extension_support(dev, required_extensions) THEN 0
    ELSE IF "SWAPCHAIN" \in flags /\ surface # "null" /\ ~dev.surface_caps THEN 0
    ELSE IF ~dev.features THEN 0
    ELSE (IF dev.discrete THEN DiscreteBonus ELSE 0) + dev.maxImageDimension2D

RequiredExtensions(flags) ==
    DEVICE_EXTENSIONS_REQUIRED
    \cup (IF "SWAPCHAIN" \in flags \/ "ENSURE_SURFACE_SUPPORT" \in flags
          THEN {"VK_KHR_swapchain"} ELSE {})

\* The candidates multimap, in the order the loop inserts them.
RECURSIVE Candidates(_, _, _, _)
Candidates(devs, i, flags, surface) ==
    IF i > Len(devs) THEN <<>>
    ELSE
        LET dev == devs[i]
            indices == _find_queue_families(dev, flags, surface)
            rest == Candidates(devs, i + 1, flags, surface)
        IN  IF ~is_complete(indices, "ENSURE_SURFACE_SUPPORT" \in flags,
                            "DISTINCT_COMPUTE_QUEUE" \in flags)
            THEN rest
            ELSE <<[score |-> _rate_device_suitability(
                                  dev, RequiredExtensions(flags), flags, surface),
                    device |-> dev, indices |-> indices]>> \o rest

\* candidates.rbegin(): the greatest key, and among equal keys the one inserted last.
LastBest(cands) ==
    LET best == CHOOSE k \in 1..Len(cands) :
                    \A j \in 1..Len(cands) :
                        \/ cands[j].score < cands[k].score
                        \/ (cands[j].score = cands[k].score /\ j <= k)
    IN  cands[best]

(***************************************************************************)
(* VulkanRenderBackend::VulkanRenderBackend.  The constructor ends in one  *)
(* of three ways: "ok" (the caller holds the object), "abort" (a fatal     *)
(* assertion or a crash ended the process), "throw" (std::optional::value  *)
(* threw std::bad_optional_access out of the constructor, so make_shared   *)
(* hands the caller nothing).                                              *)
(***************************************************************************)
Outcome(result, s_init, backend) ==
    [result |-> result, s_initialized |-> s_init, backend |-> backend]

\* GL_ASSERT(false, ...): the process ends.
Fatal(s_init) == Outcome("abort", s_init, AbsentBackend)

\* The constructor without its guard on the flag.
AlreadyInitialized_unguarded == FALSE

AlreadyInitialized == s_initialized

_create_surface_platform_specific(p_connection, p_window, native_ok) ==
    /\ p_window
    /\ (build.win32 \/ p_connection)
    /\ native_ok

\* The families a queue is requested for in VkDeviceCreateInfo.
unique_queue_families(indices) ==
    {indices.graphics_family, indices.transfer_family}
    \cup (IF indices.present_family # NoFamily THEN {indices.present_family} ELSE {})

\* The allocator's cleanup registered before the device's instead of after it.
RegisterCleanups_allocator_first(q) ==
    push_function(push_function(push_function(q,
        "destroy_allocator"), "destroy_device_and_instance"), "destroy_immediate")

\* The cleanup lambdas, in the order the constructor registers them.
RegisterCleanups(q) ==
    push_function(push_function(push_function(q,
        "destroy_device_and_instance"), "destroy_allocator"), "destroy_immediate")

\* From vkCreateDevice to the end of the constructor.
CreateLogicalDevice(info, devs, nat, surface, messenger, device, indices) ==
    IF nat = "vkCreateDevice" THEN {Fatal(TRUE)}
    ELSE IF indices.compute_family = NoFamily \/ indices.present_family = NoFamily
    THEN {Outcome("throw", TRUE, AbsentBackend)}
    ELSE {Outcome("ok", TRUE,
            [state |-> "live",
             required_features |-> info.required_features,
             surface |-> surface,
             physical_device |-> device,
             indices |-> indices,
             queue_families |-> unique_queue_families(indices),
             swapchain_supported |-> device.swapchain_ext,
             debug_messenger |-> messenger,
             deletion_queue |-> RegisterCleanups(<<>>),
             small_allocs_pools |-> {}])}

\* What reading candidates.rbegin() of an empty multimap can do: crash, or read
\* a key that is not above zero (the assertion fires), or read a key above zero
\* and go on with whatever lies behind the iterator.
GarbageIndices ==
    [graphics_family |-> 0, present_family |-> 0,
     transfer_family |-> 0, compute_family |-> 0]

SelectDevice(info, devs, nat, surface, messenger) ==
    LET cands == Candidates(devs, 1, info.required_features, surface)
    IN  IF cands = <<>>
        THEN {Fatal(TRUE)}
             \cup CreateLogicalDevice(info, devs, nat, surface, messenger,
                                      GarbageDevice, GarbageIndices)
        ELSE IF LastBest(cands).score > 0
        THEN CreateLogicalDevice(info, devs, nat, surface, messenger,
                                 LastBest(cands).device, LastBest(cands).indices)
        ELSE {Fatal(TRUE)}

ConstructorOutcomes(info, devs, nat) ==
    LET rf == info.required_features
        swapchain_support_required == "SWAPCHAIN" \in rf
        surface_support_required == "ENSURE_SURFACE_SUPPORT" \in rf
        messenger == IF ~build.debug THEN "none"
                     ELSE IF nat # "createMessenger" THEN "live" ELSE "garbage"
        wants_surface == (swapchain_support_required \/ surface_support_required)
                         /\ info.native_window_handle
        surface_ok == _create_surface_platform_specific(
                          info.native_connection_handle,
                          info.native_window_handle, nat # "createSurface")
    IN  IF AlreadyInitialized THEN {Fatal(TRUE)}
        ELSE IF nat = "vkCreateInstance" THEN {Fatal(FALSE)}
        ELSE IF surface_support_required /\ ~info.native_window_handle
        THEN {Fatal(TRUE)}
        ELSE IF wants_surface /\ ~surface_ok THEN {Fatal(TRUE)}
        ELSE IF Len(devs) = 0 THEN {Fatal(TRUE)}
        ELSE SelectDevice(info, devs, nat,
                          IF wants_surface THEN "live" ELSE "null", messenger)

NoInfo ==
    [required_features |-> {}, native_connection_handle |-> FALSE,
     native_window_handle |-> FALSE]

Op(op, c) ==
    [op |-> op, backend |-> c, result |-> "ok", pending |-> inFlight,
     enumerated |-> <<>>]


\* The inputs of one construction; none is read when the guard at the top of
\* the constructor trips.
ConstructorInputs ==
    IF AlreadyInitialized
    THEN {[info |-> NoInfo, devs |-> <<>>, nat |-> "none"]}
    ELSE [info : CreateInfos, devs : DeviceLists, nat : NativeFailures]

\* RenderBackend::create: make_shared<VulkanRenderBackend>(p_info).  The caller
\* keeps the object in the first free place it has.
CreateFrom(c, inputs) ==
    /\ ~aborted
    /\ backends[c].state = "absent"
    /\ \A d \in Backends : d < c => backends[d].state # "absent"
    /\ \E inp \in inputs :
         \E o \in ConstructorOutcomes(inp.info, inp.devs, inp.nat) :
            /\ s_initialized' = o.s_initialized
            /\ aborted' = (o.result = "abort")
            /\ backends' = [backends EXCEPT ![c] = o.backend]
            /\ lastOp' = [op |-> "create", backend |-> c, result |-> o.result,
                          pending |-> inFlight, enumerated |-> inp.devs]
            /\ trace' = <<>>
    /\ UNCHANGED <<build, inFlight, dqVars, storeVars, poolVars, swapVars>>
    /\ UNCHANGED <<fnVars, threadVars>>

Create(c) == CreateFrom(c, ConstructorInputs)

(***************************************************************************)
(* Teardown.  Each cleanup lambda makes its native calls in the order of   *)
(* its body; ~VulkanRenderBackend flushes the queue and clears the flag.   *)
(***************************************************************************)
CleanupCalls(b, f) ==
    CASE f = "destroy_device_and_instance" ->
            (IF b.surface # "null" THEN <<"vkDestroySurfaceKHR">> ELSE <<>>)
            \o <<"vkDestroyDevice">>
            \o (IF build.debug THEN <<"vkDestroyDebugUtilsMessengerEXT">> ELSE <<>>)
            \o <<"vkDestroyInstance">>
      [] f = "destroy_allocator" -> <<"vmaDestroyAllocator">>
      [] f = "destroy_immediate" ->
            <<"fence_free(imm_transfer)", "command_pool_free(imm_transfer)",
              "fence_free(imm_graphics)", "command_pool_free(imm_graphics)">>

RECURSIVE RunCleanups(_, _)
RunCleanups(b, order) ==
    IF order = <<>> THEN <<>>
    ELSE CleanupCalls(b, Head(order)) \o RunCleanups(b, Tail(order))

\* The native calls of ~VulkanRenderBackend, in order.
DestructorCalls(b) == RunCleanups(b, flush_order(b.deletion_queue))

Destroy(c) ==
    /\ ~aborted
    /\ backends[c].state = "live"
    /\ trace' = DestructorCalls(backends[c])
    /\ s_initialized' = FALSE
    /\ backends' = [backends EXCEPT ![c] = AbsentBackend]
    /\ lastOp' = Op("destroy", c)
    /\ inFlight' = 0
    /\ UNCHANGED <<aborted, build, dqVars, storeVars, poolVars, swapVars>>
    /\ UNCHANGED <<fnVars, threadVars>>

\* queue_submit hands the GPU one more batch of work.
QueueSubmit(c) ==
    /\ ~aborted
    /\ backends[c].state = "live"
    /\ inFlight < MaxInFlight
    /\ inFlight' = inFlight + 1
    /\ lastOp' = Op("queue_submit", c)
    /\ trace' = <<"vkQueueSubmit">>
    /\ UNCHANGED <<s_initialized, aborted, build, backends, dqVars, storeVars, poolVars, swapVars>>
    /\ UNCHANGED <<fnVars, threadVars>>

\* The GPU finishes a batch.
GpuComplete ==
    /\ ~aborted
    /\ inFlight > 0
    /\ inFlight' = inFlight - 1
    /\ UNCHANGED <<s_initialized, aborted, build, backends, lastOp, trace, dqVars, storeVars, poolVars, swapVars>>
    /\ UNCHANGED <<fnVars, threadVars>>

\* device_wait: vkDeviceWaitIdle returns once all queued work has drained.
device_wait(c) ==
    /\ ~aborted
    /\ backends[c].state = "live"
    /\ inFlight' = 0
    /\ lastOp' = Op("device_wait", c)
    /\ trace' = <<"vkDeviceWaitIdle">>
    /\ UNCHANGED <<s_initialized, aborted, build, backends, dqVars, storeVars, poolVars, swapVars>>
    /\ UNCHANGED <<fnVars, threadVars>>

Builds == [debug : BOOLEAN, win32 : BOOLEAN]

(***************************************************************************)
(* What the caller threads share: the mutex of each of the four queues,    *)
(* the two immediate-submit channels and the mutex of each.                *)
(***************************************************************************)
QueueTypes == {"GRAPHICS", "PRESENT", "TRANSFER", "COMPUTE"}
ImmediateBuffers == {"imm_transfer", "imm_graphics"}
MutexNames == QueueTypes \cup {"imm_cmd_transfer_mutex", "imm_cmd_graphics_mutex"}

\* No thread holds the mutex.
Unlocked == 0

\* fence_create() with its default argument makes the fence signaled.
p_create_signaled_default == TRUE

\* An ImmediateBuffer as the constructor leaves it.
ConstructedImmediateBuffer ==
    [fence |-> IF p_create_signaled_default THEN "signaled" ELSE "unsignaled",
     command_buffer |-> "initial"]

\* A thread that is in no call of the backend.
IdleThread ==
    [call |-> "none", arg |-> "none", pc |-> 0, staging_buffer |-> "none",
     vk_descriptor_pool |-> 0, count |-> 0]

\* Everything but the descriptor pool table.
InitContext ==
    /\ s_initialized = FALSE
    /\ aborted = FALSE
    /\ build \in Builds
    /\ backends = [c \in Backends |-> AbsentBackend]
    /\ inFlight = 0
    /\ lastOp = Op("none", 0)
    /\ trace = <<>>
    /\ dq = <<>>
    /\ dqBatch = <<>>
    /\ dqRan = <<>>
    /\ resources_allocator = [pages |-> 0, free_list |-> <<>>]
    /\ handles = [slot \in Slots |-> {}]
    /\ ever_freed = {}
    /\ swapchains = [s \in SwapchainIds |-> AbsentSwapchain]
    /\ vk_objects = [swapchains |-> {}, image_views |-> {}, invalid_destroys |-> {}]
    /\ before = AbsentSwapchain
    /\ resized = {}
    /\ mutexes = [m \in MutexNames |-> Unlocked]
    /\ imm = [channel \in ImmediateBuffers |-> ConstructedImmediateBuffer]
    /\ threads = [t \in Threads |-> IdleThread]
    /\ gpu_work = {}

\* No function has been called on its own.
NoCall == [function |-> "none"]

\* The program after start-up, before any call.
InitProgram ==
    /\ InitContext
    /\ descriptor_set_pools = [p \in PoolIds |-> NoPool]
    /\ outstanding = [p \in PoolIds |-> 0]

Init ==
    /\ InitProgram
    /\ call_args = NoCall
    /\ call_ret = NoCall

Next ==
    \/ \E c \in Backends : Create(c)
    \/ \E c \in Backends : Destroy(c)
    \/ \E c \in Backends : QueueSubmit(c)
    \/ \E c \in Backends : device_wait(c)
    \/ GpuComplete

Spec == Init /\ [][Next]_vars

(***************************************************************************)
(* The Device Context: claims C1, C2, C3, C7 and C8.                       *)
(***************************************************************************)
LiveBackends == {c \in Backends : backends[c].state = "live"}

\* C1: at most one Device Context is live at any time; a creation requested
\* while another context is live never yields a second initialized context.
C1_AtMostOneLiveBackend == Cardinality(LiveBackends) <= 1

\* A second creation was requested while the first context was live.
C1_SecondCreationWhileLive ==
    /\ lastOp.op = "create"
    /\ lastOp.backend = 2
    /\ lastOp.result = "abort"
    /\ backends[1].state = "live"

\* The hard requirements of the design on a device: the required extensions and
\* features, an adequate surface when a swapchain is asked for, and a family for
\* every queue the configuration asks for.
MeetsHardRequirements(dev, flags, surface) ==
    /\ RequiredExtensions(flags) \subseteq DeviceExtensions(dev)
    /\ dev.features
    /\ (("SWAPCHAIN" \in flags /\ surface # "null") => dev.surface_caps)
    /\ is_complete(_find_queue_families(dev, flags, surface),
                   "ENSURE_SURFACE_SUPPORT" \in flags,
                   "DISTINCT_COMPUTE_QUEUE" \in flags)

\* C2: a device lacking a hard requirement is never selected, and when no
\* enumerated device scores above zero the creation fails instead of going on
\* with any device: a creation that succeeded selected one of the enumerated
\* devices, and that device meets every hard requirement.
C2_SelectedDeviceMeetsRequirements ==
    (lastOp.op = "create" /\ lastOp.result = "ok") =>
        LET b == backends[lastOp.backend]
        IN  /\ \E i \in 1..Len(lastOp.enumerated) :
                   lastOp.enumerated[i] = b.physical_device
            /\ MeetsHardRequirements(b.physical_device, b.required_features,
                                     b.surface)

\* Every family a backend's queues use is a family of its physical device.
FamiliesOfDevice(b) ==
    \A f \in {b.indices.graphics_family, b.indices.transfer_family,
              b.indices.compute_family, b.indices.present_family} :
        f \in 0..(Len(b.physical_device.families) - 1)

\* C3: after a fatal initialization error the caller never obtains a partially
\* initialized context: every context the caller holds has a physical device,
\* a family of that device for each of its queues, and its cleanups registered.
C3_NoPartialContext ==
    \A c \in Backends :
        backends[c].state = "live" =>
            /\ backends[c].physical_device \in DeviceCatalog
            /\ FamiliesOfDevice(backends[c])
            /\ Len(backends[c].deletion_queue) = 3

Position(seq, x) == CHOOSE i \in 1..Len(seq) : seq[i] = x
Called(seq, x) == \E i \in 1..Len(seq) : seq[i] = x
CalledBefore(seq, x, y) ==
    Called(seq, x) /\ Called(seq, y) /\ Position(seq, x) < Position(seq, y)

\* C7: at teardown the immediate-submit fences and command pools and the memory
\* allocator are destroyed before the logical device, and the logical device
\* and the debug messenger are destroyed before the instance.
C7_TeardownOrder ==
    lastOp.op = "destroy" =>
        /\ \A x \in {"fence_free(imm_transfer)", "command_pool_free(imm_transfer)",
                     "fence_free(imm_graphics)", "command_pool_free(imm_graphics)",
                     "vmaDestroyAllocator"} :
               CalledBefore(trace, x, "vkDestroyDevice")
        /\ CalledBefore(trace, "vkDestroyDevice", "vkDestroyInstance")
        /\ (build.debug =>
               CalledBefore(trace, "vkDestroyDebugUtilsMessengerEXT",
                            "vkDestroyInstance"))

\* A context of a debug build has been torn down.
C7_DebugTeardown ==
    /\ lastOp.op = "destroy"
    /\ build.debug
    /\ Called(trace, "vkDestroyDebugUtilsMessengerEXT")
    /\ Called(trace, "vkDestroySurfaceKHR")

\* C8: destroying the Device Context performs a full device-idle wait before
\* the Deletion Queue executes its first cleanup action.
C8_WaitsBeforeFirstCleanup ==
    lastOp.op = "destroy" =>
        /\ Called(trace, "vkDeviceWaitIdle")
        /\ \A i \in 1..Len(trace) :
               trace[i] # "vkDeviceWaitIdle" =>
                   Position(trace, "vkDeviceWaitIdle") < i

(***************************************************************************)
(* The Deletion Queue on its own: any actions pushed, any number of        *)
(* flushes.                                                                *)
(***************************************************************************)
CleanupActions == {"a", "b", "c"}

DqPush ==
    /\ Len(dq) < MaxQueue
    /\ \E f \in CleanupActions : dq' = push_function(dq, f)
    /\ lastOp' = Op("push", 0)
    /\ UNCHANGED <<dqBatch, dqRan>>
    /\ UNCHANGED <<s_initialized, aborted, build, backends, trace, inFlight>>
    /\ UNCHANGED <<storeVars, poolVars, swapVars>>
    /\ UNCHANGED <<fnVars, threadVars>>

DqFlush ==
    /\ dqBatch' = dq
    /\ dqRan' = flush_order(dq)
    /\ dq' = <<>>
    /\ lastOp' = Op("flush", 0)
    /\ UNCHANGED <<s_initialized, aborted, build, backends, trace, inFlight>>
    /\ UNCHANGED <<storeVars, poolVars, swapVars>>
    /\ UNCHANGED <<fnVars, threadVars>>

NextDeletionQueue == DqPush \/ DqFlush

SpecDeletionQueue == Init /\ [][NextDeletionQueue]_vars

Reverse(seq) == [i \in 1..Len(seq) |-> seq[Len(seq) + 1 - i]]

\* C6: flush executes every registered cleanup action exactly once, in strict
\* reverse order of registration, and then empties the queue, so that a second
\* flush executes nothing.
C6_FlushRunsNewestFirstOnce ==
    lastOp.op = "flush" =>
        /\ dqRan = Reverse(dqBatch)
        /\ dq = <<>>

\* The queue held [a, b, c] when it was flushed.
C6_FlushedThree ==
    /\ lastOp.op = "flush"
    /\ dqBatch = <<"a", "b", "c">>
    /\ dqRan = <<"c", "b", "a">>

(***************************************************************************)
(* The Paged Resource Store (resources_allocator) and the handlers that    *)
(* take slots from it and give them back.  A handle is the address of its  *)
(* slot; handles[slot] holds the kinds of the live handles at that slot.   *)
(***************************************************************************)
PageSlots(page) == [i \in 1..PageSize |-> (page - 1) * PageSize + i]

\* The store has a slot to give: a free one, or room for one more page.
can_allocate(store) == store.free_list # <<>> \/ store.pages < MaxPages

\* The free list allocate() pops from: a new page is appended only when the
\* free list is empty.
free_list_for_allocate(store) ==
    IF store.free_list = <<>> THEN PageSlots(store.pages + 1)
    ELSE store.free_list

\* allocate() without the pop: the slot it returns stays on the free list.
allocate_keeps_slot(store) ==
    LET avail == free_list_for_allocate(store)
    IN  [slot |-> avail[Len(avail)],
         store |-> [pages |-> IF store.free_list = <<>> THEN store.pages + 1
                              ELSE store.pages,
                    free_list |-> avail]]

\* VersatileResource::allocate<T>(resources_allocator): the slot handed out and
\* the store afterwards.
allocate(store) ==
    LET avail == free_list_for_allocate(store)
    IN  [slot |-> avail[Len(avail)],
         store |-> [pages |-> IF store.free_list = <<>> THEN store.pages + 1
                              ELSE store.pages,
                    free_list |-> SubSeq(avail, 1, Len(avail) - 1)]]

\* VersatileResource::free(resources_allocator, p): the slot goes back on the
\* free list.
free(store, slot) == [store EXCEPT !.free_list = Append(@, slot)]

\* _image_create: the native image and view are created, then a slot is taken
\* for the VulkanImage.
_image_create(store) == allocate(store)

LiveSlots(kind) == {slot \in Slots : kind \in handles[slot]}

\* The native call of _image_create that fails, if any.
ImageFailures == {"none", "vmaCreateImage", "vkCreateImageView"}

\* VK_CHECK on a result other than VK_SUCCESS: the process is ended, or, with
\* the check compiled out, the function goes on with the null handle.
VK_CHECK_outcomes == {"abort", "continue"}

\* The calls of _image_create that created something, in order: a failed call
\* creates nothing, and nothing that was created is destroyed again.
_image_create_calls(fail, outcome) ==
    (IF fail = "vmaCreateImage" THEN <<>> ELSE <<"vmaCreateImage">>)
    \o (IF fail = "none" THEN <<"vkCreateImageView">> ELSE <<>>)
    \o (IF fail # "none" /\ outcome = "abort" THEN <<>> ELSE <<"allocate">>)

\* What the caller of image_create gets: the handle of a complete image, the
\* handle of an image whose native image or view is null, or nothing because
\* the process has ended.  The return type is the plain handle.
image_create_result(fail, outcome) ==
    IF fail = "none" THEN "ok"
    ELSE IF outcome = "abort" THEN "abort" ELSE "partial_handle"

ImageOp(op, fail, outcome) ==
    [op |-> op, backend |-> 0, result |-> image_create_result(fail, outcome),
     pending |-> inFlight, enumerated |-> <<>>, failed |-> fail,
     calls |-> (IF op = "image_create_data" THEN <<"buffer_create">> ELSE <<>>)
               \o _image_create_calls(fail, outcome)
               \o (IF op = "image_create_data"
                      /\ ~(fail # "none" /\ outcome = "abort")
                   THEN <<"buffer_free">> ELSE <<>>)]

\* image_create without initial data.
ImageCreate(fail, outcome) ==
    /\ ~aborted
    /\ can_allocate(resources_allocator)
    /\ IF fail # "none" /\ outcome = "abort"
       THEN /\ aborted' = TRUE
            /\ UNCHANGED <<resources_allocator, handles>>
       ELSE /\ LET a == _image_create(resources_allocator)
               IN  /\ resources_allocator' = a.store
                   /\ handles' = [handles EXCEPT ![a.slot] = @ \cup {"image"}]
            /\ UNCHANGED aborted
    /\ lastOp' = ImageOp("image_create", fail, outcome)
    /\ UNCHANGED <<s_initialized, build, backends, trace, inFlight>>
    /\ UNCHANGED <<ever_freed, dqVars, poolVars, swapVars>>
    /\ UNCHANGED <<fnVars, threadVars>>

\* image_create with initial data: a staging buffer is created, the image is
\* created, the copy is submitted, and the staging buffer is freed.
ImageCreateWithData(fail, outcome) ==
    /\ ~aborted
    /\ can_allocate(resources_allocator)
    /\ LET staging == allocate(resources_allocator)
       IN  /\ can_allocate(staging.store)
           /\ IF fail # "none" /\ outcome = "abort"
              THEN /\ aborted' = TRUE
                   /\ resources_allocator' = staging.store
                   /\ handles' = [handles EXCEPT
                                    ![staging.slot] = @ \cup {"buffer"}]
                   /\ UNCHANGED ever_freed
              ELSE /\ LET a == _image_create(staging.store)
                      IN  /\ resources_allocator' = free(a.store, staging.slot)
                          /\ handles' = [handles EXCEPT
                                           ![a.slot] = @ \cup {"image"}]
                          /\ ever_freed' = ever_freed \cup {staging.slot}
                   /\ UNCHANGED aborted
    /\ lastOp' = ImageOp("image_create_data", fail, outcome)
    /\ UNCHANGED <<s_initialized, build, backends, trace, inFlight>>
    /\ UNCHANGED <<dqVars, poolVars, swapVars>>
    /\ UNCHANGED <<fnVars, threadVars>>

\* image_free: the native view and image are destroyed; the slot of the
\* VulkanImage is not given back to the store.
ImageFree ==
    /\ ~aborted
    /\ \E slot \in LiveSlots("image") :
         handles' = [handles EXCEPT ![slot] = @ \ {"image"}]
    /\ lastOp' = Op("image_free", 0)
    /\ UNCHANGED <<s_initialized, aborted, build, backends, trace, inFlight>>
    /\ UNCHANGED <<resources_allocator, ever_freed, dqVars, poolVars, swapVars>>
    /\ UNCHANGED <<fnVars, threadVars>>

\* buffer_create: a slot is taken for the VulkanBuffer.
BufferCreate ==
    /\ ~aborted
    /\ can_allocate(resources_allocator)
    /\ LET a == allocate(resources_allocator)
       IN  /\ resources_allocator' = a.store
           /\ handles' = [handles EXCEPT ![a.slot] = @ \cup {"buffer"}]
    /\ lastOp' = Op("buffer_create", 0)
    /\ UNCHANGED <<s_initialized, aborted, build, backends, trace, inFlight>>
    /\ UNCHANGED <<ever_freed, dqVars, poolVars, swapVars>>
    /\ UNCHANGED <<fnVars, threadVars>>

\* buffer_free on a live buffer: the native buffer is destroyed and the slot
\* goes back to the store.
BufferFree ==
    /\ ~aborted
    /\ \E slot \in LiveSlots("buffer") :
         /\ handles' = [handles EXCEPT ![slot] = @ \ {"buffer"}]
         /\ resources_allocator' = free(resources_allocator, slot)
         /\ ever_freed' = ever_freed \cup {slot}
    /\ lastOp' = Op("buffer_free", 0)
    /\ UNCHANGED <<s_initialized, aborted, build, backends, trace, inFlight>>
    /\ UNCHANGED <<dqVars, poolVars, swapVars>>
    /\ UNCHANGED <<fnVars, threadVars>>

\* The handlers of the store while every native call succeeds.
NextStore ==
    \/ ImageCreate("none", "continue")
    \/ ImageCreateWithData("none", "continue")
    \/ ImageFree
    \/ BufferCreate
    \/ BufferFree

SpecStore == Init /\ [][NextStore]_vars

FreeSlots == {resources_allocator.free_list[i] :
                 i \in 1..Len(resources_allocator.free_list)}

\* C4: no slot of the Paged Resource Store is held by two live handles at
\* once, and a slot that is on the free list is held by no live handle and is
\* on the list once, so only one later allocate can claim it.
C4_NoSlotSharedByLiveHandles ==
    /\ \A slot \in Slots : Cardinality(handles[slot]) <= 1
    /\ \A slot \in FreeSlots : handles[slot] = {}
    /\ Cardinality(FreeSlots) = Len(resources_allocator.free_list)

\* A slot that was freed has been claimed again and is live, while the store
\* holds another live handle as well.
C4_FreedSlotReused ==
    /\ \E slot \in ever_freed : handles[slot] # {}
    /\ Cardinality({slot \in Slots : handles[slot] # {}}) >= 2

\* The image handlers with native calls that may fail.
NextImages ==
    \/ \E fail \in ImageFailures, outcome \in VK_CHECK_outcomes :
         ImageCreate(fail, outcome)
    \/ \E fail \in ImageFailures, outcome \in VK_CHECK_outcomes :
         ImageCreateWithData(fail, outcome)
    \/ ImageFree

SpecImages == Init /\ [][NextImages]_vars

ImageCreateOps == {"image_create", "image_create_data"}

Made(calls, call) == \E i \in DOMAIN calls : calls[i] = call

\* C24: when the native creation of the image or of its view fails during
\* image_create, the caller gets a typed failure, and neither a native image
\* with its memory, nor a slot of the store taken during the call, nor a
\* partially constructed handle is left.
C24_FailureReportedWithoutSideEffects ==
    (lastOp.op \in ImageCreateOps /\ lastOp.failed # "none") =>
        /\ lastOp.result = "error"
        /\ ~aborted
        /\ Made(lastOp.calls, "vmaCreateImage") => Made(lastOp.calls, "vmaDestroyImage")
        /\ ~Made(lastOp.calls, "allocate")
        /\ Made(lastOp.calls, "buffer_create") => Made(lastOp.calls, "buffer_free")

\* The view could not be created: the caller holds a handle whose image exists
\* and whose view is null, and the slot of the handle is taken.
C24_ViewFailedHandleReturned ==
    /\ lastOp.op \in ImageCreateOps
    /\ lastOp.failed = "vkCreateImageView"
    /\ lastOp.result = "partial_handle"
    /\ Made(lastOp.calls, "vmaCreateImage")
    /\ Made(lastOp.calls, "allocate")

(***************************************************************************)
(* The Binding-Set Pool Cache (descriptor_set_pools): per key, the pools   *)
(* created for it and the number of sets counted against each.             *)
(***************************************************************************)
PoolsOf(key) == {p \in PoolIds : descriptor_set_pools[p].key = key}
AbsentPools == {p \in PoolIds : descriptor_set_pools[p].key = "none"}

\* A pool is full one set too late.
has_room_inclusive(pool) == pool.count <= MAX_UNIFORM_POOL_ELEMENT

\* A pool may take one more set while its counter is below the capacity.
has_room(pool) == pool.count < MAX_UNIFORM_POOL_ELEMENT

\* _uniform_pool_find_or_create: the pools under the key that have room, or,
\* when there is none, a pool created for the key.
_uniform_pool_find_or_create(key) ==
    LET found == {p \in PoolsOf(key) : has_room(descriptor_set_pools[p])}
    IN  IF found # {} THEN [created |-> FALSE, pools |-> found]
        ELSE [created |-> TRUE, pools |-> AbsentPools]

\* The counters the model follows: within MaxDrift of empty or of full.
CounterWindow ==
    (0..MaxDrift)
    \cup ((MAX_UNIFORM_POOL_ELEMENT - MaxDrift)..MAX_UNIFORM_POOL_ELEMENT)

\* The pool table after any number of acquires and releases: each pool absent
\* or under a key with a counter between zero and the capacity.
InitPools ==
    /\ InitContext
    /\ call_args = NoCall
    /\ call_ret = NoCall
    /\ descriptor_set_pools \in
         [PoolIds -> {NoPool} \cup [key : PoolKeys, count : CounterWindow]]
    /\ outstanding = [p \in PoolIds |-> descriptor_set_pools[p].count]

\* A retry that goes back to the pool that has just failed.
fresh_pool_candidates_same(p) == {p}

\* The pool created after a failed allocation: one that did not exist.
fresh_pool_candidates(p) == AbsentPools \ {p}

\* uniform_set_create: a pool is found or created for the key and the native
\* set is allocated from it; when that allocation fails although the pool
\* seemed to have room, a fresh pool is created for the key and used instead.
UniformSetCreate(key, native_ok) ==
    /\ ~aborted
    /\ LET r == _uniform_pool_find_or_create(key)
       IN  \E p \in r.pools :
             /\ descriptor_set_pools[p].count # MaxDrift
             /\ IF native_ok
                THEN /\ descriptor_set_pools' =
                          [descriptor_set_pools EXCEPT
                              ![p] = [key |-> key, count |-> @.count + 1]]
                     /\ outstanding' = [outstanding EXCEPT ![p] = @ + 1]
                     /\ lastOp' = [Op("uniform_set_create", 0) EXCEPT
                                      !.result = IF r.created THEN "new_pool"
                                                 ELSE "found"]
                     /\ trace' = <<[call |-> "vkAllocateDescriptorSets", handle |-> p]>>
                ELSE \E q \in fresh_pool_candidates(p) :
                     /\ descriptor_set_pools' =
                          [descriptor_set_pools EXCEPT
                              ![p] = [key |-> key, count |-> @.count],
                              ![q] = [key |-> key, count |-> 1]]
                     /\ outstanding' = [outstanding EXCEPT ![q] = 1]
                     /\ lastOp' = [Op("uniform_set_create", 0) EXCEPT
                                      !.result = "fresh_pool"]
                     /\ trace' = <<[call |-> "vkAllocateDescriptorSets", handle |-> p],
                                   [call |-> "vkCreateDescriptorPool", handle |-> q],
                                   [call |-> "vkAllocateDescriptorSets", handle |-> q]>>
    /\ UNCHANGED <<s_initialized, aborted, build, backends, inFlight>>
    /\ UNCHANGED <<dqVars, storeVars, swapVars>>
    /\ UNCHANGED <<fnVars, threadVars>>

\* uniform_set_free of a set of pool p: the native set is freed and
\* _uniform_pool_unreference decrements the pool's counter; a pool whose
\* counter reaches zero is destroyed or kept.
UniformSetFree(p, destroy_empty) ==
    /\ ~aborted
    /\ descriptor_set_pools[p].key # "none"
    /\ outstanding[p] > 0
    /\ descriptor_set_pools[p].count # MAX_UNIFORM_POOL_ELEMENT - MaxDrift
    /\ outstanding' = [outstanding EXCEPT ![p] = @ - 1]
    /\ descriptor_set_pools' =
         [descriptor_set_pools EXCEPT
             ![p] = IF @.count = 1 /\ destroy_empty THEN NoPool
                    ELSE [@ EXCEPT !.count = @ - 1]]
    /\ lastOp' = Op("uniform_set_free", 0)
    /\ UNCHANGED <<s_initialized, aborted, build, backends, trace, inFlight>>
    /\ UNCHANGED <<dqVars, storeVars, swapVars>>
    /\ UNCHANGED <<fnVars, threadVars>>

NextPools ==
    \/ \E key \in PoolKeys, native_ok \in BOOLEAN : UniformSetCreate(key, native_ok)
    \/ \E p \in PoolIds, destroy_empty \in BOOLEAN : UniformSetFree(p, destroy_empty)

SpecPools == InitPools /\ [][NextPools]_vars

RECURSIVE SumOutstanding(_)
SumOutstanding(pools) ==
    IF pools = {} THEN 0
    ELSE LET p == CHOOSE q \in pools : TRUE
         IN  outstanding[p] + SumOutstanding(pools \ {p})

\* C5: for every Pool Capacity Key, the sets outstanding against each of the
\* key's pools never exceed the pool capacity of 65535, so their sum over the
\* key's pools never exceeds the sum of the capacities; the counter of a pool
\* is the number of its outstanding sets.
C5_OutstandingWithinCapacity ==
    /\ \A p \in PoolIds :
          /\ outstanding[p] <= MAX_UNIFORM_POOL_ELEMENT
          /\ descriptor_set_pools[p].count = outstanding[p]
    /\ \A key \in PoolKeys :
          SumOutstanding(PoolsOf(key))
              <= Cardinality(PoolsOf(key)) * MAX_UNIFORM_POOL_ELEMENT

\* A set was acquired for a key whose only pool was full: the full pool kept
\* its 65535 sets and the set came from a pool created for it.
C5_AcquireWithFullPool ==
    /\ lastOp.op = "uniform_set_create"
    /\ lastOp.result = "new_pool"
    /\ \E p, q \in PoolIds :
          /\ descriptor_set_pools[p].key = descriptor_set_pools[q].key
          /\ outstanding[p] = MAX_UNIFORM_POOL_ELEMENT
          /\ outstanding[q] = 1

(***************************************************************************)
(* The Swapchain Controller.  What the surface reports is read anew by     *)
(* every resize; native handles are numbers, a new object taking the       *)
(* smallest number no live object of its kind has.                         *)
(***************************************************************************)
SurfaceFormat(format, colorSpace) == [format |-> format, colorSpace |-> colorSpace]

\* What the surface reports to a resize; driver_images is the number of images
\* the driver makes for it beyond the count asked for.
SurfaceStates ==
    { [currentExtent |-> Extent(800, 600),
       minImageExtent |-> Extent(1, 1), maxImageExtent |-> Extent(4096, 4096),
       minImageCount |-> 2, maxImageCount |-> 0,
       formats |-> <<SurfaceFormat("B8G8R8A8_UNORM", "SRGB_NONLINEAR"),
                     SurfaceFormat("R8G8B8A8_UNORM", "SRGB_NONLINEAR")>>,
       present_modes |-> <<"FIFO", "MAILBOX">>, driver_images |-> 0],
      [currentExtent |-> Extent(UINT32_MAX, UINT32_MAX),
       minImageExtent |-> Extent(1, 1), maxImageExtent |-> Extent(1280, 720),
       minImageCount |-> 1, maxImageCount |-> 1,
       formats |-> <<SurfaceFormat("R16G16B16A16_SFLOAT", "EXTENDED_SRGB_LINEAR"),
                     SurfaceFormat("B8G8R8A8_UNORM", "SRGB_NONLINEAR")>>,
       present_modes |-> <<"FIFO", "IMMEDIATE">>, driver_images |-> 1] }

Vec2u(x, y) == [x |-> x, y |-> y]
Sizes == {Vec2u(800, 600), Vec2u(1920, 1080)}
ResizeFailures == {"none", "vkGetPhysicalDeviceSurfaceCapabilitiesKHR",
                   "vkCreateSwapchainKHR", "vkCreateImageView"}

ResizeInputs ==
    [p_size : Sizes, p_vsync : BOOLEAN, capabilities : SurfaceStates,
     fail : ResizeFailures]

\* std::clamp
clamp(v, lo, hi) == IF v < lo THEN lo ELSE IF hi < v THEN hi ELSE v

\* The extent taken from the request as it is.
select_extent_unclamped(capabilities, p_size) ==
    IF capabilities.currentExtent.width # UINT32_MAX
    THEN capabilities.currentExtent
    ELSE Extent(p_size.x, p_size.y)

select_extent(capabilities, p_size) ==
    IF capabilities.currentExtent.width # UINT32_MAX
    THEN capabilities.currentExtent
    ELSE Extent(clamp(p_size.x, capabilities.minImageExtent.width,
                      capabilities.maxImageExtent.width),
                clamp(p_size.y, capabilities.minImageExtent.height,
                      capabilities.maxImageExtent.height))

\* The count is not capped at the maximum the surface reports.
select_image_count_uncapped(capabilities) == capabilities.minImageCount + 1

select_image_count(capabilities) ==
    LET image_count == IF capabilities.minImageCount = UINT32_MAX THEN 0
                       ELSE capabilities.minImageCount + 1
    IN  IF capabilities.maxImageCount > 0 /\ image_count > capabilities.maxImageCount
        THEN capabilities.maxImageCount
        ELSE image_count

RECURSIVE select_format_loop(_, _, _)
select_format_loop(formats, i, selected) ==
    IF i > Len(formats) THEN selected
    ELSE IF formats[i] = SurfaceFormat("R8G8B8A8_UNORM", "SRGB_NONLINEAR")
    THEN formats[i]
    ELSE IF formats[i] = SurfaceFormat("B8G8R8A8_UNORM", "SRGB_NONLINEAR")
    THEN select_format_loop(formats, i + 1, formats[i])
    ELSE select_format_loop(formats, i + 1, selected)

\* The loop misses the first entry of the list.
select_surface_format_from_second(formats) == select_format_loop(formats, 2, formats[1])

select_surface_format(formats) == select_format_loop(formats, 1, formats[1])

Contains(seq, x) == \E i \in 1..Len(seq) : seq[i] = x

\* Immediate preferred to mailbox.
select_present_mode_immediate_first(present_modes, p_vsync) ==
    IF p_vsync THEN "FIFO"
    ELSE IF Contains(present_modes, "IMMEDIATE") THEN "IMMEDIATE"
    ELSE IF Contains(present_modes, "MAILBOX") THEN "MAILBOX"
    ELSE "FIFO"

select_present_mode(present_modes, p_vsync) ==
    IF p_vsync THEN "FIFO"
    ELSE IF Contains(present_modes, "MAILBOX") THEN "MAILBOX"
    ELSE IF Contains(present_modes, "IMMEDIATE") THEN "IMMEDIATE"
    ELSE "FIFO"

\* The n smallest handles that no live object has, in ascending order.
RECURSIVE FreshHandles(_, _)
FreshHandles(live, n) ==
    IF n = 0 THEN <<>>
    ELSE LET h == CHOOSE k \in 1..(Cardinality(live) + 1) : k \notin live
         IN  <<h>> \o FreshHandles(live \cup {h}, n - 1)

Call(name, handle) == [call |-> name, handle |-> handle]

\* A swapchain created ready.
swapchain_create_ready ==
    [state |-> "allocated", vk_swapchain |-> VK_NULL_HANDLE,
     format |-> "R8G8B8A8_UNORM", color_space |-> "SRGB_NONLINEAR",
     extent |-> Extent(0, 0), images |-> <<>>, image_index |-> 0,
     initialized |-> TRUE]

\* The object swapchain_create returns.
swapchain_create_object ==
    [state |-> "allocated", vk_swapchain |-> VK_NULL_HANDLE,
     format |-> "R8G8B8A8_UNORM", color_space |-> "SRGB_NONLINEAR",
     extent |-> Extent(0, 0), images |-> <<>>, image_index |-> 0,
     initialized |-> FALSE]

ViewsOf(swapchain) ==
    {swapchain.images[i].vk_image_view : i \in 1..Len(swapchain.images)}
        \ {VK_NULL_HANDLE}

\* What one native call does to the live native objects: a create adds the
\* handle it returned, a destroy removes its handle; a destroy of a handle that
\* is not live is kept as invalid.
native_effect(objects, entry) ==
    CASE entry.call = "vkCreateSwapchainKHR" /\ entry.handle # VK_NULL_HANDLE ->
            [objects EXCEPT !.swapchains = @ \cup {entry.handle}]
      [] entry.call = "vkCreateImageView" /\ entry.handle # VK_NULL_HANDLE ->
            [objects EXCEPT !.image_views = @ \cup {entry.handle}]
      [] entry.call = "vkDestroySwapchainKHR" ->
            IF entry.handle \in objects.swapchains
            THEN [objects EXCEPT !.swapchains = @ \ {entry.handle}]
            ELSE [objects EXCEPT !.invalid_destroys = @ \cup {entry}]
      [] entry.call = "vkDestroyImageView" ->
            IF entry.handle \in objects.image_views
            THEN [objects EXCEPT !.image_views = @ \ {entry.handle}]
            ELSE [objects EXCEPT !.invalid_destroys = @ \cup {entry}]
      [] OTHER -> objects

RECURSIVE native_effects(_, _)
native_effects(objects, calls) ==
    IF calls = <<>> THEN objects
    ELSE native_effects(native_effect(objects, Head(calls)), Tail(calls))

\* A release that leaves the native swapchain alive.
release_calls_keeping_swapchain(swapchain) ==
    LET views == SelectSeq(swapchain.images,
                           LAMBDA image : image.vk_image_view # VK_NULL_HANDLE)
    IN  [i \in 1..Len(views) |-> Call("vkDestroyImageView", views[i].vk_image_view)]

\* _swapchain_release: the native calls it makes, in order.
release_calls(swapchain) ==
    LET views == SelectSeq(swapchain.images,
                           LAMBDA image : image.vk_image_view # VK_NULL_HANDLE)
    IN  [i \in 1..Len(views) |-> Call("vkDestroyImageView", views[i].vk_image_view)]
        \o (IF swapchain.vk_swapchain # VK_NULL_HANDLE
            THEN <<Call("vkDestroySwapchainKHR", swapchain.vk_swapchain)>>
            ELSE <<>>)

\* _swapchain_release: the swapchain object afterwards.
_swapchain_release(swapchain) ==
    [swapchain EXCEPT !.images = <<>>, !.vk_swapchain = VK_NULL_HANDLE,
                      !.initialized = FALSE, !.image_index = UINT32_MAX]

\* The live native objects once the calls of _swapchain_release are made.
released_objects(objects, swapchain) ==
    native_effects(objects, release_calls(swapchain))

\* The call of vkCreateSwapchainKHR, with what create_info asks for.
CreateSwapchainCall(handle, create_info) ==
    [call |-> "vkCreateSwapchainKHR", handle |-> handle, create_info |-> create_info]

\* A resize that builds the new image views while the old ones are still
\* there.
resize_calls_views_first(swapchain, create_call, new_views) ==
    <<create_call>>
    \o [i \in 1..Len(new_views) |-> Call("vkCreateImageView", new_views[i])]
    \o (IF swapchain.initialized THEN release_calls(swapchain) ELSE <<>>)

\* swapchain_resize from vkCreateSwapchainKHR on: the native calls, in order.
resize_calls(swapchain, create_call, new_views) ==
    <<create_call>>
    \o (IF swapchain.initialized THEN release_calls(swapchain) ELSE <<>>)
    \o [i \in 1..Len(new_views) |-> Call("vkCreateImageView", new_views[i])]

\* An entry of swapchain->images whose view is never made.
swapchain_image_without_view(i, view, format, extent) == [vk_image |-> i, vk_image_view |-> VK_NULL_HANDLE, image_format |-> format, image_extent |-> extent]

\* An entry of swapchain->images as the loop over the retrieved images fills
\* it: the image, the view made for it, the format and the extent.
swapchain_image(i, view, format, extent) == [vk_image |-> i, vk_image_view |-> view, image_format |-> format, image_extent |-> extent]

\* A return before the new swapchain exists that has dropped the old one.
returned_early_released(swapchain) == _swapchain_release(swapchain)

\* swapchain_resize returns before the new swapchain exists: nothing of the
\* object has been written.
returned_early(swapchain) == swapchain

\* swapchain_resize: how it ends, the swapchain object and the live native
\* objects it leaves, and the native calls it made.  inp holds p_size and
\* p_vsync, what the surface reports, and the native call that fails.
swapchain_resize_outcome(surface, given, swapchain, objects, inp) ==
    LET stop(result, calls) ==
            [result |-> result, swapchain |-> returned_early(swapchain),
             objects |-> objects, calls |-> calls]
        capabilities == inp.capabilities
        fail == inp.fail
        extent == select_extent(capabilities, inp.p_size)
        image_count == select_image_count(capabilities)
        selected_format == select_surface_format(capabilities.formats)
        present_mode == select_present_mode(capabilities.present_modes, inp.p_vsync)
        new_vk_swapchain == FreshHandles(objects.swapchains, 1)[1]
        \* vkCreateSwapchainKHR fails (VK_ERROR_NATIVE_WINDOW_IN_USE_KHR) while
        \* the surface has a swapchain other than oldSwapchain.
        window_in_use == objects.swapchains \ {swapchain.vk_swapchain} # {}
        create_call(handle) ==
            CreateSwapchainCall(handle,
                [minImageCount |-> image_count,
                 imageFormat |-> selected_format.format,
                 imageColorSpace |-> selected_format.colorSpace,
                 imageExtent |-> extent, presentMode |-> present_mode,
                 oldSwapchain |-> swapchain.vk_swapchain])
        released == IF swapchain.initialized THEN _swapchain_release(swapchain)
                    ELSE swapchain
        left == IF swapchain.initialized THEN released_objects(objects, swapchain)
                ELSE objects
        returned == image_count + capabilities.driver_images
        new_views == IF fail = "vkCreateImageView" THEN <<VK_NULL_HANDLE>>
                     ELSE FreshHandles(left.image_views, returned)
        images == [i \in 1..returned |->
                     swapchain_image(i,
                         IF fail = "vkCreateImageView" THEN VK_NULL_HANDLE
                         ELSE new_views[i],
                         selected_format.format, extent)]
    IN  IF surface = "null" THEN stop("headless", <<>>)
        ELSE IF ~given THEN stop("null_swapchain", <<>>)
        ELSE IF fail = "vkGetPhysicalDeviceSurfaceCapabilitiesKHR"
        THEN stop("abort", <<Call("vkDeviceWaitIdle", VK_NULL_HANDLE)>>)
        ELSE IF fail = "vkCreateSwapchainKHR" \/ window_in_use
        THEN stop("abort", <<Call("vkDeviceWaitIdle", VK_NULL_HANDLE),
                             create_call(VK_NULL_HANDLE)>>)
        ELSE [result |-> IF fail = "vkCreateImageView" THEN "abort" ELSE "ok",
              swapchain |->
                  [released EXCEPT !.vk_swapchain = new_vk_swapchain,
                                   !.format = selected_format.format,
                                   !.color_space = selected_format.colorSpace,
                                   !.extent = extent,
                                   !.images = images,
                                   !.initialized = (fail # "vkCreateImageView")],
              objects |->
                  native_effects(objects,
                      resize_calls(swapchain, create_call(new_vk_swapchain),
                                   new_views)),
              calls |-> <<Call("vkDeviceWaitIdle", VK_NULL_HANDLE)>>
                        \o resize_calls(swapchain, create_call(new_vk_swapchain),
                                        new_views)]

\* swapchain_create
swapchain_create(c, s) ==
    /\ ~aborted
    /\ backends[c].state = "live"
    /\ swapchains[s].state = "absent"
    /\ swapchains' = [swapchains EXCEPT ![s] = swapchain_create_object]
    /\ before' = swapchains[s]
    /\ lastOp' = Op("swapchain_create", c)
    /\ trace' = <<>>
    /\ UNCHANGED <<s_initialized, aborted, build, backends, inFlight>>
    /\ UNCHANGED <<vk_objects, resized, dqVars, storeVars, poolVars>>
    /\ UNCHANGED <<fnVars, threadVars>>

\* The call of swapchain_resize made last: its swapchain, its arguments and
\* what the surface reported to it.
ResizeOp(c, s, inp, result) ==
    [op |-> "swapchain_resize", backend |-> c, result |-> result,
     pending |-> inFlight, enumerated |-> <<>>, swapchain |-> s, input |-> inp]

\* swapchain_resize; s = 0 is the null swapchain.
swapchain_resize(c, s, inp) ==
    /\ ~aborted
    /\ backends[c].state = "live"
    /\ s # 0 => swapchains[s].state = "allocated"
    /\ \E swapchain \in {IF s = 0 THEN AbsentSwapchain ELSE swapchains[s]} :
       \E o \in {swapchain_resize_outcome(backends[c].surface, s # 0, swapchain,
                                          vk_objects, inp)} :
           /\ swapchains' = IF s = 0 THEN swapchains
                            ELSE [swapchains EXCEPT ![s] = o.swapchain]
           /\ vk_objects' = o.objects
           /\ trace' = o.calls
           /\ aborted' = (o.result = "abort")
           /\ inFlight' = IF o.calls = <<>> THEN inFlight ELSE 0
           /\ resized' = IF o.result = "ok" THEN resized \cup {s} ELSE resized
           /\ before' = swapchain
           /\ lastOp' = ResizeOp(c, s, inp, o.result)
    /\ UNCHANGED <<s_initialized, build, backends, dqVars, storeVars, poolVars>>
    /\ UNCHANGED <<fnVars, threadVars>>

AcquireResults == {"VK_SUCCESS", "VK_SUBOPTIMAL_KHR", "VK_ERROR_OUT_OF_DATE_KHR",
                   "VK_ERROR_DEVICE_LOST"}

\* A suboptimal surface taken as a success.
acquire_return_suboptimal_ok(swapchain, res) ==
    IF res = "VK_ERROR_OUT_OF_DATE_KHR"
    THEN [kind |-> "err", error |-> "OUT_OF_DATE"]
    ELSE IF res \notin {"VK_SUCCESS", "VK_SUBOPTIMAL_KHR"}
    THEN [kind |-> "err", error |-> "ERROR"]
    ELSE [kind |-> "image", index |-> swapchain.image_index]

\* swapchain_acquire_image: what it returns for the result of
\* vkAcquireNextImageKHR, the image index already stored in the swapchain.
acquire_return(swapchain, res) ==
    IF res \in {"VK_ERROR_OUT_OF_DATE_KHR", "VK_SUBOPTIMAL_KHR"}
    THEN [kind |-> "err", error |-> "OUT_OF_DATE"]
    ELSE IF res # "VK_SUCCESS"
    THEN [kind |-> "err", error |-> "ERROR"]
    ELSE [kind |-> "image", index |-> swapchain.image_index]

\* vkAcquireNextImageKHR: the results it can give and the index it writes.  It
\* writes an index of the swapchain's images when it acquires one (also on a
\* suboptimal surface).  Called with a null swapchain handle its behaviour is
\* undefined: it can crash, or give any result and write index 0.
vkAcquireNextImageKHR(swapchain) ==
    IF swapchain.vk_swapchain = VK_NULL_HANDLE
    THEN {[res |-> "crash", image_index |-> swapchain.image_index]}
         \cup [res : AcquireResults, image_index : {swapchain.image_index, 0}]
    ELSE [res : {"VK_SUCCESS", "VK_SUBOPTIMAL_KHR"},
          image_index : 0..(Len(swapchain.images) - 1)]
         \cup [res : {"VK_ERROR_OUT_OF_DATE_KHR", "VK_ERROR_DEVICE_LOST"},
               image_index : {swapchain.image_index}]

\* An acquire that drops the swapchain's images when the surface is out of
\* date.
acquire_update_releasing(swapchain, native) ==
    IF native.res = "VK_ERROR_OUT_OF_DATE_KHR" THEN _swapchain_release(swapchain)
    ELSE [swapchain EXCEPT !.image_index = native.image_index]

\* swapchain_acquire_image: the swapchain object after the native call, which
\* wrote into image_index.
acquire_update(swapchain, native) ==
    [swapchain EXCEPT !.image_index = native.image_index]

\* The call of swapchain_acquire_image made last: its swapchain, the native
\* result and what the caller got.
AcquireOp(c, s, res, returned) ==
    [op |-> "swapchain_acquire_image", backend |-> c, result |-> res,
     pending |-> inFlight, enumerated |-> <<>>, swapchain |-> s,
     returned |-> returned]

\* swapchain_acquire_image: what the call does to the backend and the
\* swapchain.
acquire_image_call(c, s) ==
    /\ ~aborted
    /\ backends[c].state = "live"
    /\ swapchains[s].state = "allocated"
    /\ \E native \in vkAcquireNextImageKHR(swapchains[s]) :
         \E acquired \in {acquire_update(swapchains[s], native)} :
            /\ swapchains' = [swapchains EXCEPT ![s] = acquired]
            /\ aborted' = (native.res = "crash")
            /\ lastOp' = AcquireOp(c, s, native.res,
                                   IF native.res = "crash" THEN [kind |-> "none"]
                                   ELSE acquire_return(acquired, native.res))
    /\ trace' = <<Call("vkAcquireNextImageKHR", swapchains[s].vk_swapchain)>>
    /\ before' = swapchains[s]
    /\ UNCHANGED <<s_initialized, build, backends, inFlight>>
    /\ UNCHANGED <<vk_objects, resized, dqVars, storeVars, poolVars>>

\* swapchain_acquire_image
swapchain_acquire_image(c, s) ==
    /\ acquire_image_call(c, s)
    /\ UNCHANGED <<fnVars, threadVars>>

\* swapchain_free; s = 0 is the null swapchain, which the assertion rejects.
swapchain_free(c, s) ==
    /\ ~aborted
    /\ backends[c].state = "live"
    /\ s # 0 => swapchains[s].state = "allocated"
    /\ IF s = 0
       THEN /\ aborted' = TRUE
            /\ trace' = <<>>
            /\ before' = AbsentSwapchain
            /\ lastOp' = [Op("swapchain_free", c) EXCEPT !.result = "abort"]
            /\ UNCHANGED <<swapchains, vk_objects, resized>>
       ELSE /\ aborted' = aborted
            /\ trace' = release_calls(swapchains[s])
            /\ vk_objects' = released_objects(vk_objects, swapchains[s])
            /\ swapchains' = [swapchains EXCEPT ![s] = AbsentSwapchain]
            /\ resized' = resized \ {s}
            /\ before' = swapchains[s]
            /\ lastOp' = Op("swapchain_free", c)
    /\ UNCHANGED <<s_initialized, build, backends, inFlight>>
    /\ UNCHANGED <<dqVars, storeVars, poolVars>>
    /\ UNCHANGED <<fnVars, threadVars>>

\* The contexts the swapchains are exercised on: one made for a window on a
\* device that can present to it, and one made without a window.
SwapchainContexts ==
    { [info |-> [required_features |-> {"SWAPCHAIN", "ENSURE_SURFACE_SUPPORT"},
                 native_connection_handle |-> TRUE,
                 native_window_handle |-> TRUE],
       devs |-> <<CHOOSE d \in DeviceCatalog : d.name = "discrete">>,
       nat |-> "none"],
      [info |-> [required_features |-> {"DISTINCT_COMPUTE_QUEUE"},
                 native_connection_handle |-> FALSE,
                 native_window_handle |-> FALSE],
       devs |-> <<CHOOSE d \in DeviceCatalog : d.name = "integrated">>,
       nat |-> "none"] }

NextSwapchain ==
    \/ CreateFrom(1, SwapchainContexts)
    \/ \E c \in Backends, s \in SwapchainIds : swapchain_create(c, s)
    \/ \E c \in Backends, s \in SwapchainIds \cup {0}, inp \in ResizeInputs :
          swapchain_resize(c, s, inp)
    \/ \E c \in Backends, s \in SwapchainIds : swapchain_acquire_image(c, s)
    \/ \E c \in Backends, s \in SwapchainIds \cup {0} : swapchain_free(c, s)

\* A release build for a platform whose windows need a display connection.
InitSwapchain == Init /\ build = [debug |-> FALSE, win32 |-> FALSE]

SpecSwapchain == InitSwapchain /\ [][NextSwapchain]_vars

\* C9: a swapchain is not ready after swapchain_create, becomes READY on the
\* first resize that succeeds, and is READY after every later resize that
\* succeeds, until swapchain_free: while the program runs, a swapchain the
\* caller holds is ready exactly when a resize has succeeded on it.
C9_ReadyExactlyAfterSuccessfulResize ==
    ~aborted =>
        /\ \A s \in SwapchainIds :
              /\ swapchains[s].state = "allocated" =>
                     (swapchains[s].initialized <=> s \in resized)
              /\ swapchains[s].state = "absent" => ~swapchains[s].initialized
        /\ lastOp.op = "swapchain_create" =>
              \E s \in SwapchainIds :
                  swapchains[s].state = "allocated" /\ ~swapchains[s].initialized

\* A second resize has succeeded on a swapchain that was READY.
C9_ResizedAgain ==
    /\ lastOp.op = "swapchain_resize"
    /\ lastOp.result = "ok"
    /\ before.initialized
    /\ \E s \in SwapchainIds : swapchains[s].initialized

IsCall(entry, name, handle) == entry.call = name /\ entry.handle = handle

\* C10: in a resize of a READY swapchain, every image view of the previous
\* swapchain is destroyed before the first vkCreateImageView for the new one.
C10_OldViewsDestroyedFirst ==
    (lastOp.op = "swapchain_resize" /\ before.initialized) =>
        \A i \in 1..Len(trace) :
            trace[i].call = "vkCreateImageView" =>
                \A view \in ViewsOf(before) :
                    \E j \in 1..(i - 1) :
                        IsCall(trace[j], "vkDestroyImageView", view)

\* A READY swapchain of three images has been resized into one of two.
C10_ResizedReadySwapchain ==
    /\ lastOp.op = "swapchain_resize"
    /\ lastOp.result = "ok"
    /\ before.initialized
    /\ Cardinality(ViewsOf(before)) = 3
    /\ Cardinality({i \in 1..Len(trace) : trace[i].call = "vkCreateImageView"}) = 2
    /\ Cardinality({i \in 1..Len(trace) : trace[i].call = "vkDestroyImageView"}) = 3

\* swapchain_get_extent: the stored VkExtent2D copied into a Vec2u.
swapchain_get_extent(swapchain) ==
    Vec2u(swapchain.extent.width, swapchain.extent.height)

Min(a, b) == IF a < b THEN a ELSE b
Max(a, b) == IF a > b THEN a ELSE b

\* The requested size brought component-wise into the surface's limits.
ClampedRequest(capabilities, p_size) ==
    Vec2u(Max(capabilities.minImageExtent.width,
              Min(capabilities.maxImageExtent.width, p_size.x)),
          Max(capabilities.minImageExtent.height,
              Min(capabilities.maxImageExtent.height, p_size.y)))

ResizeSucceeded == lastOp.op = "swapchain_resize" /\ lastOp.result = "ok"

\* C11 as stated: after a successful swapchain_resize(size), swapchain_get_extent
\* reports the requested size clamped component-wise into the surface's minimum
\* and maximum image extent.
C11_ExtentIsClampedRequest ==
    ResizeSucceeded =>
        swapchain_get_extent(swapchains[lastOp.swapchain])
            = ClampedRequest(lastOp.input.capabilities, lastOp.input.p_size)

\* C11 as amended: after a successful swapchain_resize(size), swapchain_get_extent
\* reports the surface's current extent when the surface reports one, and the
\* requested size clamped component-wise into the surface's minimum and maximum
\* image extent when it reports none (a current width of UINT32_MAX).
C11_ExtentIsCurrentOrClampedRequest ==
    ResizeSucceeded =>
        LET capabilities == lastOp.input.capabilities
            reported == swapchain_get_extent(swapchains[lastOp.swapchain])
        IN  IF capabilities.currentExtent.width # UINT32_MAX
            THEN reported = Vec2u(capabilities.currentExtent.width,
                                  capabilities.currentExtent.height)
            ELSE reported = ClampedRequest(capabilities, lastOp.input.p_size)

\* A request of 1920x1080 on a surface that reports no current extent and a
\* maximum of 1280x720 has been resized to 1280x720.
C11_RequestAboveMaximum ==
    /\ ResizeSucceeded
    /\ lastOp.input.capabilities.currentExtent.width = UINT32_MAX
    /\ lastOp.input.p_size = Vec2u(1920, 1080)
    /\ swapchain_get_extent(swapchains[lastOp.swapchain]) = Vec2u(1280, 720)

(***************************************************************************)
(* The selections of swapchain_resize on their own, over every report of   *)
(* the surface within the bounds.                                          *)
(***************************************************************************)
PresentModes == {"FIFO", "MAILBOX", "IMMEDIATE", "FIFO_RELAXED"}

\* What vkGetPhysicalDeviceSurfacePresentModesKHR can report: FIFO is always
\* among the modes.
PresentModeLists ==
    {modes \in UNION {[1..n -> PresentModes] : n \in 1..MaxModes} :
        Contains(modes, "FIFO")}

InitPresentMode ==
    /\ InitProgram
    /\ call_args \in [function : {"select_present_mode"},
                      present_modes : PresentModeLists, p_vsync : BOOLEAN]
    /\ call_ret = NoCall

\* The caller-side variables a function exercised on its own leaves alone.
programVars == <<ctxVars, dqVars, storeVars, poolVars, swapVars, threadVars>>

SelectPresentMode ==
    /\ call_args.function = "select_present_mode"
    /\ call_ret = NoCall
    /\ call_ret' = [function |-> "select_present_mode",
                    mode |-> select_present_mode(call_args.present_modes,
                                                 call_args.p_vsync)]
    /\ UNCHANGED <<call_args, programVars>>

NextPresentMode == SelectPresentMode

SpecPresentMode == InitPresentMode /\ [][NextPresentMode]_vars

PresentModeSelected == call_ret.function = "select_present_mode"

\* C12 as stated: for every set of present modes the surface reports, FIFO is
\* selected when vsync is true; when vsync is false, mailbox is selected if the
\* surface reports it, and immediate otherwise.
C12_MailboxElseImmediate ==
    PresentModeSelected =>
        call_ret.mode =
            IF call_args.p_vsync THEN "FIFO"
            ELSE IF Contains(call_args.present_modes, "MAILBOX") THEN "MAILBOX"
            ELSE "IMMEDIATE"

\* C12 as amended: FIFO is selected when vsync is true; when vsync is false,
\* mailbox is selected if the surface reports it, immediate if the surface
\* reports immediate and not mailbox, and FIFO if it reports neither.
C12_MailboxElseImmediateElseFifo ==
    PresentModeSelected =>
        LET reported(mode) == Contains(call_args.present_modes, mode)
        IN  /\ call_args.p_vsync => call_ret.mode = "FIFO"
            /\ (~call_args.p_vsync /\ reported("MAILBOX")) => call_ret.mode = "MAILBOX"
            /\ (~call_args.p_vsync /\ ~reported("MAILBOX") /\ reported("IMMEDIATE"))
                   => call_ret.mode = "IMMEDIATE"
            /\ (~call_args.p_vsync /\ ~reported("MAILBOX") /\ ~reported("IMMEDIATE"))
                   => call_ret.mode = "FIFO"

\* Without vsync, on a surface that reports immediate before mailbox, mailbox
\* has been selected.
C12_MailboxAfterImmediate ==
    /\ PresentModeSelected
    /\ call_args.present_modes = <<"FIFO", "IMMEDIATE", "MAILBOX">>
    /\ ~call_args.p_vsync
    /\ call_ret.mode = "MAILBOX"

Acquired == lastOp.op = "swapchain_acquire_image" /\ lastOp.result # "crash"

\* C13: swapchain_acquire_image reports an out-of-date or suboptimal surface as
\* OUT_OF_DATE and every other native failure as ERROR, a different result, and
\* returns no image in either case.
C13_OutOfDateDistinctFromError ==
    Acquired =>
        /\ lastOp.result \in {"VK_ERROR_OUT_OF_DATE_KHR", "VK_SUBOPTIMAL_KHR"}
              => lastOp.returned = [kind |-> "err", error |-> "OUT_OF_DATE"]
        /\ lastOp.result \notin {"VK_ERROR_OUT_OF_DATE_KHR", "VK_SUBOPTIMAL_KHR",
                                 "VK_SUCCESS"}
              => lastOp.returned = [kind |-> "err", error |-> "ERROR"]
        /\ lastOp.result # "VK_SUCCESS" => lastOp.returned.kind # "image"

\* A READY swapchain has been found suboptimal by an acquire.
C13_SuboptimalReported ==
    /\ Acquired
    /\ before.initialized
    /\ lastOp.result = "VK_SUBOPTIMAL_KHR"
    /\ lastOp.returned.kind = "err"

\* C14: the Swapchain Controller never resizes on its own initiative: on every
\* outcome swapchain_acquire_image leaves the native swapchain handle, extent,
\* format, image list and ready flag as they were, changes at most the index of
\* the acquired image, and creates and destroys no native object.
C14_AcquireChangesOnlyIndex ==
    lastOp.op = "swapchain_acquire_image" =>
        LET now == swapchains[lastOp.swapchain]
        IN  /\ now.vk_swapchain = before.vk_swapchain
            /\ now.extent = before.extent
            /\ now.format = before.format
            /\ now.color_space = before.color_space
            /\ now.images = before.images
            /\ now.initialized = before.initialized
            /\ now.state = before.state
            /\ \A i \in 1..Len(trace) : trace[i].call = "vkAcquireNextImageKHR"

\* An acquire on a READY swapchain has found the surface out of date.
C14_OutOfDateAcquire ==
    /\ lastOp.op = "swapchain_acquire_image"
    /\ lastOp.result = "VK_ERROR_OUT_OF_DATE_KHR"
    /\ before.initialized
    /\ swapchains[lastOp.swapchain].initialized

HeldSwapchains ==
    {swapchains[s].vk_swapchain : s \in SwapchainIds} \ {VK_NULL_HANDLE}
HeldViews == UNION {ViewsOf(swapchains[s]) : s \in SwapchainIds}

\* C15: over any sequence of resizes of a swapchain ended by swapchain_free,
\* every native swapchain and image view the controller created is destroyed
\* exactly once: while the program runs, the live native objects are exactly
\* those the caller's swapchains hold (none is leaked, and none is left once
\* the swapchain is freed), and no destroy was made on an object not live.
C15_CreatedObjectsDestroyedOnce ==
    ~aborted =>
        /\ vk_objects.swapchains = HeldSwapchains
        /\ vk_objects.image_views = HeldViews
        /\ vk_objects.invalid_destroys = {}
        /\ \A s \in SwapchainIds :
              Cardinality(ViewsOf(swapchains[s])) = Len(swapchains[s].images)

\* A swapchain resized at least twice has been freed: its last native
\* swapchain and views were destroyed by the free, and nothing is left.
C15_FreedAfterResizes ==
    /\ lastOp.op = "swapchain_free"
    /\ lastOp.result = "ok"
    /\ before.initialized
    /\ before.vk_swapchain = 2
    /\ Len(trace) = Len(before.images) + 1
    /\ vk_objects.swapchains = {}
    /\ vk_objects.image_views = {}

(***************************************************************************)
(* The four logical queues after construction: claim C20.                  *)
(***************************************************************************)
\* The constructor ran as far as retrieving the queues of a selected device
\* (vk_backend.cpp:254-265): it either completed or left through an exception.
RetrievedQueues == lastOp.op = "create" /\ lastOp.result \in {"ok", "throw"}

\* C20: for every selected device context creation completes and each of the
\* four logical queues (graphics, transfer, compute, present) has a family; a
\* capability without a family of its own falls back to the graphics family.
C20_EveryQueueGetsFamily ==
    RetrievedQueues =>
        /\ lastOp.result = "ok"
        /\ LET indices == backends[lastOp.backend].indices
           IN  /\ indices.graphics_family # NoFamily
               /\ indices.transfer_family # NoFamily
               /\ indices.compute_family # NoFamily
               /\ indices.present_family # NoFamily

(***************************************************************************)
(* Caller threads.  Several native threads call into one live backend; a   *)
(* call is a sequence of steps and the threads take their steps in any     *)
(* order.  A thread that asks for a mutex another thread holds waits.      *)
(***************************************************************************)
\* queue_submit making the native call without taking the queue's mutex.
queue_submit_steps_unlocked == <<"vkQueueSubmit", "vkQueueSubmit_return">>

\* queue_submit: the native submission, made while holding the mutex of the
\* VulkanQueue it is given.
queue_submit_steps == <<"lock_queue", "vkQueueSubmit", "vkQueueSubmit_return", "unlock_queue">>

\* command_immediate_submit releasing the channel's mutex before it waits.
command_immediate_submit_steps_early_unlock ==
    <<"lock_imm", "record">> \o queue_submit_steps
        \o <<"unlock_imm", "fence_wait", "fence_reset">>

\* command_immediate_submit: acquire the channel's mutex, record, submit,
\* block on the channel's fence, reset the fence, release the mutex.
command_immediate_submit_steps ==
    <<"lock_imm", "record">> \o queue_submit_steps
        \o <<"fence_wait", "fence_reset", "unlock_imm">>

\* image_create with initial data: the staging buffer is created and filled,
\* the copy is submitted through the graphics channel, the buffer is freed.
image_create_steps ==
    <<"buffer_create">> \o command_immediate_submit_steps \o <<"buffer_free">>

\* uniform_set_create: a pool is found or created for the key, the native set
\* is allocated from it and the pool's counter is incremented.  The class has
\* a mutex for each queue and for each immediate-submit channel and none for
\* descriptor_set_pools, so no step takes one.
uniform_set_create_steps ==
    <<"_uniform_pool_find_or_create", "vkAllocateDescriptorSets",
      "load_count", "store_count">>

\* uniform_set_free: the native set is freed and _uniform_pool_unreference
\* decrements the counter of the pool it came from.
uniform_set_free_steps == <<"vkFreeDescriptorSets", "load_count", "store_count">>

Steps(call) ==
    CASE call = "queue_submit" -> queue_submit_steps
      [] call = "command_immediate_submit" -> command_immediate_submit_steps
      [] call = "image_create" -> image_create_steps
      [] call = "uniform_set_create" -> uniform_set_create_steps
      [] call = "uniform_set_free" -> uniform_set_free_steps
      [] OTHER -> <<>>

\* queue_submit on the queue of any type, without a fence.
QueueCalls == {"queue_submit"} \X QueueTypes

\* command_immediate_submit with its default type, QueueType::TRANSFER, and
\* image_create with data, which names QueueType::GRAPHICS.
ImmediateCalls ==
    {<<"command_immediate_submit", "TRANSFER">>, <<"image_create", "GRAPHICS">>}

\* The step a thread takes next.
NextStep(t) ==
    IF threads[t].call = "none" THEN "none"
    ELSE IF threads[t].pc < Len(Steps(threads[t].call))
    THEN Steps(threads[t].call)[threads[t].pc + 1]
    ELSE "return"

\* The thread has taken the step in the call it is in.
Done(t, step) ==
    \E i \in 1..threads[t].pc : Steps(threads[t].call)[i] = step

Advance(t) == [threads EXCEPT ![t].pc = @ + 1]

\* imm_transfer belongs to the transfer queue, imm_graphics to the graphics one.
ImmediateBufferOf(p_queue_type) ==
    IF p_queue_type = "TRANSFER" THEN "imm_transfer" ELSE "imm_graphics"

ImmediateMutexOf(p_queue_type) ==
    IF p_queue_type = "TRANSFER" THEN "imm_cmd_transfer_mutex"
    ELSE "imm_cmd_graphics_mutex"

\* The family whose queue 0 the constructor retrieved for the type.
queue_family(p_type) ==
    LET indices == backends[1].indices
    IN  CASE p_type = "GRAPHICS" -> indices.graphics_family
          [] p_type = "TRANSFER" -> indices.transfer_family
          [] p_type = "COMPUTE" -> indices.compute_family
          [] p_type = "PRESENT" -> indices.present_family

Running == ~aborted /\ backends[1].state = "live"

\* What the steps of a thread leave alone.
calleeVars == <<ctxVars, dqVars, storeVars, poolVars, swapVars, fnVars>>

\* A thread enters a call.
Invoke(t, call, arg) ==
    /\ Running
    /\ threads[t].call = "none"
    /\ threads' = [threads EXCEPT ![t] = [IdleThread EXCEPT !.call = call, !.arg = arg]]
    /\ UNCHANGED <<mutexes, imm, gpu_work, calleeVars>>

\* The thread has run the call to its end.
Return(t) ==
    /\ Running
    /\ NextStep(t) = "return"
    /\ threads' = [threads EXCEPT ![t] = IdleThread]
    /\ UNCHANGED <<mutexes, imm, gpu_work, calleeVars>>

\* std::mutex::lock and unlock.
lock(m, t) ==
    /\ mutexes[m] = Unlocked
    /\ mutexes' = [mutexes EXCEPT ![m] = t]

unlock(m, t) == mutexes' = [mutexes EXCEPT ![m] = Unlocked]

LockQueue(t) ==
    /\ Running
    /\ NextStep(t) = "lock_queue"
    /\ lock(threads[t].arg, t)
    /\ threads' = Advance(t)
    /\ UNCHANGED <<imm, gpu_work, calleeVars>>

UnlockQueue(t) ==
    /\ Running
    /\ NextStep(t) = "unlock_queue"
    /\ unlock(threads[t].arg, t)
    /\ threads' = Advance(t)
    /\ UNCHANGED <<imm, gpu_work, calleeVars>>

\* The fence a call hands to vkQueueSubmit.
FenceOf(t) ==
    IF threads[t].call = "queue_submit" THEN "none"
    ELSE ImmediateBufferOf(threads[t].arg)

\* vkQueueSubmit takes the work.  Work without a fence is counted; work with
\* a fence is followed until the GPU finishes it.  A fence handed to
\* vkQueueSubmit has to be unsignaled: with a signaled one the behaviour is
\* undefined, the fence staying signaled or being taken as unsignaled.
NativeSubmit(t) ==
    /\ Running
    /\ NextStep(t) = "vkQueueSubmit"
    /\ LET work == [thread |-> t, queue |-> threads[t].arg,
                    queue_family |-> queue_family(threads[t].arg),
                    fence |-> FenceOf(t),
                    staging_buffer |-> threads[t].staging_buffer]
       IN  IF work.fence = "none"
           THEN /\ inFlight < MaxInFlight
                /\ inFlight' = inFlight + 1
                /\ UNCHANGED <<imm, gpu_work>>
           ELSE /\ work \notin gpu_work
                /\ gpu_work' = gpu_work \cup {work}
                /\ \E state \in {imm[work.fence].fence, "unsignaled"} :
                      imm' = [imm EXCEPT ![work.fence].fence = state]
                /\ UNCHANGED inFlight
    /\ threads' = Advance(t)
    /\ UNCHANGED <<s_initialized, aborted, build, backends, lastOp, trace>>
    /\ UNCHANGED <<mutexes, dqVars, storeVars, poolVars, swapVars, fnVars>>

\* vkQueueSubmit returns to the thread.
NativeSubmitReturn(t) ==
    /\ Running
    /\ NextStep(t) = "vkQueueSubmit_return"
    /\ threads' = Advance(t)
    /\ UNCHANGED <<mutexes, imm, gpu_work, calleeVars>>

LockImmediate(t) ==
    /\ Running
    /\ NextStep(t) = "lock_imm"
    /\ lock(ImmediateMutexOf(threads[t].arg), t)
    /\ threads' = Advance(t)
    /\ UNCHANGED <<imm, gpu_work, calleeVars>>

UnlockImmediate(t) ==
    /\ Running
    /\ NextStep(t) = "unlock_imm"
    /\ unlock(ImmediateMutexOf(threads[t].arg), t)
    /\ threads' = Advance(t)
    /\ UNCHANGED <<imm, gpu_work, calleeVars>>

\* The caller's function records into the channel's command buffer.
Record(t) ==
    /\ Running
    /\ NextStep(t) = "record"
    /\ imm' = [imm EXCEPT ![ImmediateBufferOf(threads[t].arg)].command_buffer = "recorded"]
    /\ threads' = Advance(t)
    /\ UNCHANGED <<mutexes, gpu_work, calleeVars>>

\* fence_wait returns once the fence is signaled.
FenceWait(t) ==
    /\ Running
    /\ NextStep(t) = "fence_wait"
    /\ imm[ImmediateBufferOf(threads[t].arg)].fence = "signaled"
    /\ threads' = Advance(t)
    /\ UNCHANGED <<mutexes, imm, gpu_work, calleeVars>>

FenceReset(t) ==
    /\ Running
    /\ NextStep(t) = "fence_reset"
    /\ imm' = [imm EXCEPT ![ImmediateBufferOf(threads[t].arg)].fence = "unsignaled"]
    /\ threads' = Advance(t)
    /\ UNCHANGED <<mutexes, gpu_work, calleeVars>>

\* image_create makes and fills the staging buffer.
StagingCreate(t) ==
    /\ Running
    /\ NextStep(t) = "buffer_create"
    /\ threads' = [Advance(t) EXCEPT ![t].staging_buffer = "live"]
    /\ UNCHANGED <<mutexes, imm, gpu_work, calleeVars>>

\* image_create frees the staging buffer, whether or not the copy that reads
\* it has run.
StagingFree(t) ==
    /\ Running
    /\ NextStep(t) = "buffer_free"
    /\ threads' = [Advance(t) EXCEPT ![t].staging_buffer = "freed"]
    /\ gpu_work' =
         {IF w.thread = t /\ w.staging_buffer = "live"
          THEN [w EXCEPT !.staging_buffer = "freed"] ELSE w : w \in gpu_work}
    /\ UNCHANGED <<mutexes, imm, calleeVars>>

\* The GPU finishes a submission and signals its fence.
GpuFinish(w) ==
    /\ Running
    /\ w \in gpu_work
    /\ gpu_work' = gpu_work \ {w}
    /\ imm' = IF w.fence = "none" THEN imm
              ELSE [imm EXCEPT ![w.fence].fence = "signaled"]
    /\ UNCHANGED <<mutexes, threads, calleeVars>>

\* The context the threads share: made for a window, on a device whose
\* graphics, transfer and present queues are queue 0 of one family.
ThreadContexts == {x \in SwapchainContexts : x.info.native_window_handle}

\* Threads that call queue_submit.
NextQueueThreads ==
    \/ CreateFrom(1, ThreadContexts)
    \/ \E t \in Threads, call \in QueueCalls : Invoke(t, call[1], call[2])
    \/ \E t \in Threads : LockQueue(t)
    \/ \E t \in Threads : NativeSubmit(t)
    \/ \E t \in Threads : NativeSubmitReturn(t)
    \/ \E t \in Threads : UnlockQueue(t)
    \/ \E t \in Threads : Return(t)
    \/ GpuComplete

SpecQueueThreads == InitSwapchain /\ [][NextQueueThreads]_vars

\* Threads that call command_immediate_submit, directly or in image_create.
NextImmediateThreads ==
    \/ CreateFrom(1, ThreadContexts)
    \/ \E t \in Threads, call \in ImmediateCalls : Invoke(t, call[1], call[2])
    \/ \E t \in Threads : LockQueue(t)
    \/ \E t \in Threads : NativeSubmit(t)
    \/ \E t \in Threads : NativeSubmitReturn(t)
    \/ \E t \in Threads : UnlockQueue(t)
    \/ \E t \in Threads : LockImmediate(t)
    \/ \E t \in Threads : Record(t)
    \/ \E t \in Threads : FenceWait(t)
    \/ \E t \in Threads : FenceReset(t)
    \/ \E t \in Threads : UnlockImmediate(t)
    \/ \E t \in Threads : StagingCreate(t)
    \/ \E t \in Threads : StagingFree(t)
    \/ \E t \in Threads : Return(t)
    \/ \E w \in gpu_work : GpuFinish(w)

SpecImmediateThreads == InitSwapchain /\ [][NextImmediateThreads]_vars

\* The thread is inside the native submission to the queue.
Submitting(t, queue) ==
    /\ threads[t].arg = queue
    /\ NextStep(t) = "vkQueueSubmit_return"

\* C16: two threads that submit to the same Queue never have their native
\* submissions overlap, and a thread is inside the native submission only
\* while it holds that queue's mutex.
C16_SubmissionsSerializedPerQueue ==
    \A queue \in QueueTypes :
        /\ Cardinality({t \in Threads : Submitting(t, queue)}) <= 1
        /\ \A t \in Threads : Submitting(t, queue) => mutexes[queue] = t

\* One thread is inside the native submission to a queue while another has
\* asked for the mutex of the same queue and waits.
C16_SecondSubmitterWaits ==
    \E t, u \in Threads :
        /\ t # u
        /\ Submitting(t, threads[t].arg)
        /\ threads[u].arg = threads[t].arg
        /\ NextStep(u) = "lock_queue"

\* The thread uses the command buffer and the fence of the channel: it has
\* recorded and has not yet reset the fence it waits on.
UsingChannel(t, channel) ==
    /\ threads[t].call \in {"command_immediate_submit", "image_create"}
    /\ ImmediateBufferOf(threads[t].arg) = channel
    /\ Done(t, "record")
    /\ ~Done(t, "fence_reset")

\* C17: command_immediate_submit calls made concurrently for the same queue
\* type never overlap: at most one caller at a time records into, submits
\* and waits on the channel's command buffer and fence, and it does so
\* between acquiring and releasing the channel's mutex.
C17_OneCallerPerChannel ==
    \A p_queue_type \in {"TRANSFER", "GRAPHICS"} :
        LET channel == ImmediateBufferOf(p_queue_type)
        IN  /\ Cardinality({t \in Threads : UsingChannel(t, channel)}) <= 1
            /\ \A t \in Threads :
                  UsingChannel(t, channel)
                      => mutexes[ImmediateMutexOf(p_queue_type)] = t

\* One thread waits on the fence of a channel while another has called for
\* the same queue type and waits for the channel's mutex.
C17_SecondCallerWaits ==
    \E t, u \in Threads :
        /\ t # u
        /\ UsingChannel(t, ImmediateBufferOf(threads[t].arg))
        /\ NextStep(t) = "fence_wait"
        /\ threads[u].arg = threads[t].arg
        /\ NextStep(u) = "lock_imm"

\* C18: command_immediate_submit returns only after the GPU work it submitted
\* has completed: while the work of a call is unfinished its caller is still
\* in the call and has not come back from the wait on the fence, and the
\* staging buffer the work reads has not been freed.
C18_ReturnsAfterWorkCompleted ==
    \A w \in gpu_work :
        /\ threads[w.thread].call # "none"
        /\ ~Done(w.thread, "fence_wait")
        /\ w.staging_buffer # "freed"

(***************************************************************************)
(* Threads that acquire and release binding sets of one Pool Capacity Key. *)
(***************************************************************************)
\* What the steps on the pool table leave alone.
poolCalleeVars == <<ctxVars, dqVars, storeVars, swapVars, fnVars, mutexes, imm, gpu_work>>

\* A thread calls uniform_set_create for the key.
InvokeCreate(t, key) ==
    /\ ~aborted
    /\ threads[t].call = "none"
    /\ threads' = [threads EXCEPT ![t] =
                      [IdleThread EXCEPT !.call = "uniform_set_create", !.arg = key]]
    /\ UNCHANGED <<poolVars, poolCalleeVars>>

\* A thread calls uniform_set_free with a set of pool p.
InvokeFree(t, p) ==
    /\ ~aborted
    /\ threads[t].call = "none"
    /\ descriptor_set_pools[p].key # "none"
    /\ outstanding[p] > 0
    /\ threads' = [threads EXCEPT ![t] =
                      [IdleThread EXCEPT !.call = "uniform_set_free",
                                         !.arg = descriptor_set_pools[p].key,
                                         !.vk_descriptor_pool = p]]
    /\ UNCHANGED <<poolVars, poolCalleeVars>>

\* _uniform_pool_find_or_create: a pool under the key whose counter shows
\* room, or a pool created for the key and entered with a counter of zero.
PoolFindOrCreate(t) ==
    /\ ~aborted
    /\ NextStep(t) = "_uniform_pool_find_or_create"
    /\ LET r == _uniform_pool_find_or_create(threads[t].arg)
       IN  \E p \in r.pools :
             /\ descriptor_set_pools' =
                   IF r.created
                   THEN [descriptor_set_pools EXCEPT
                            ![p] = [key |-> threads[t].arg, count |-> 0]]
                   ELSE descriptor_set_pools
             /\ threads' = [Advance(t) EXCEPT ![t].vk_descriptor_pool = p]
    /\ UNCHANGED <<outstanding, poolCalleeVars>>

\* vkAllocateDescriptorSets: the pool was created for 65535 sets and gives no
\* more; when it gives none, a fresh pool is created for the key and used.
PoolAllocate(t) ==
    /\ ~aborted
    /\ NextStep(t) = "vkAllocateDescriptorSets"
    /\ LET p == threads[t].vk_descriptor_pool
       IN  IF outstanding[p] < MAX_UNIFORM_POOL_ELEMENT
           THEN /\ outstanding[p] # MaxDrift
                /\ outstanding' = [outstanding EXCEPT ![p] = @ + 1]
                /\ threads' = Advance(t)
                /\ UNCHANGED descriptor_set_pools
           ELSE \E q \in AbsentPools :
                /\ descriptor_set_pools' =
                      [descriptor_set_pools EXCEPT
                          ![q] = [key |-> threads[t].arg, count |-> 0]]
                /\ outstanding' = [outstanding EXCEPT ![q] = 1]
                /\ threads' = [Advance(t) EXCEPT ![t].vk_descriptor_pool = q]
    /\ UNCHANGED poolCalleeVars

\* vkFreeDescriptorSets gives the set back to its pool.
PoolFree(t) ==
    /\ ~aborted
    /\ NextStep(t) = "vkFreeDescriptorSets"
    /\ LET p == threads[t].vk_descriptor_pool
       IN  /\ outstanding[p] > 0
           /\ outstanding[p] # MAX_UNIFORM_POOL_ELEMENT - MaxDrift
           /\ outstanding' = [outstanding EXCEPT ![p] = @ - 1]
    /\ threads' = Advance(t)
    /\ UNCHANGED <<descriptor_set_pools, poolCalleeVars>>

\* The counter of the pool is read ...
PoolCountLoad(t) ==
    /\ ~aborted
    /\ NextStep(t) = "load_count"
    /\ threads' = [Advance(t) EXCEPT
                      ![t].count = descriptor_set_pools[threads[t].vk_descriptor_pool].count]
    /\ UNCHANGED <<poolVars, poolCalleeVars>>

\* The counter after the call: one more for an acquire, one less for a
\* release, the unsigned value wrapping around at either end.
counted(t) ==
    IF threads[t].call = "uniform_set_create"
    THEN (IF threads[t].count = UINT32_MAX THEN 0 ELSE threads[t].count + 1)
    ELSE (IF threads[t].count = 0 THEN UINT32_MAX ELSE threads[t].count - 1)

\* ... and written back; a release that brings it to zero destroys the pool,
\* with whatever sets it still holds, or keeps it.
PoolCountStore(t, destroy_empty) ==
    /\ ~aborted
    /\ NextStep(t) = "store_count"
    /\ counted(t) \in CounterWindow \cup {UINT32_MAX}
    /\ LET p == threads[t].vk_descriptor_pool
           destroyed == /\ threads[t].call = "uniform_set_free"
                        /\ counted(t) = 0
                        /\ destroy_empty
       IN  /\ descriptor_set_pools' =
                 [descriptor_set_pools EXCEPT
                     ![p] = IF destroyed THEN NoPool
                            ELSE [key |-> threads[t].arg, count |-> counted(t)]]
           /\ outstanding' = IF destroyed THEN [outstanding EXCEPT ![p] = 0]
                             ELSE outstanding
    /\ threads' = Advance(t)
    /\ UNCHANGED poolCalleeVars

\* The call returns to the thread.
PoolReturn(t) ==
    /\ ~aborted
    /\ threads[t].call \in {"uniform_set_create", "uniform_set_free"}
    /\ NextStep(t) = "return"
    /\ threads' = [threads EXCEPT ![t] = IdleThread]
    /\ UNCHANGED <<poolVars, poolCalleeVars>>

\* The table the threads start from: one pool under the key, near empty or
\* near full, or no pool yet.
InitPoolThreads ==
    /\ InitPools
    /\ build = [debug |-> FALSE, win32 |-> FALSE]
    /\ descriptor_set_pools[1].key \in {"none", "k1"}
    /\ \A p \in PoolIds \ {1} : descriptor_set_pools[p] = NoPool

NextPoolThreads ==
    \/ \E t \in Threads : InvokeCreate(t, "k1")
    \/ \E t \in Threads, p \in PoolIds : InvokeFree(t, p)
    \/ \E t \in Threads : PoolFindOrCreate(t)
    \/ \E t \in Threads : PoolAllocate(t)
    \/ \E t \in Threads : PoolFree(t)
    \/ \E t \in Threads : PoolCountLoad(t)
    \/ \E t \in Threads, destroy_empty \in BOOLEAN : PoolCountStore(t, destroy_empty)
    \/ \E t \in Threads : PoolReturn(t)

SpecPoolThreads == InitPoolThreads /\ [][NextPoolThreads]_vars

\* C19: under concurrent acquire and release calls for one Pool Capacity Key
\* pool selection and counter update are atomic: no pool holds more sets
\* than its capacity, and no counter update is lost, so that whenever no
\* call is under way each pool's counter is the number of its outstanding
\* sets.
C19_PoolSelectionAndCountAtomic ==
    /\ \A p \in PoolIds : outstanding[p] <= MAX_UNIFORM_POOL_ELEMENT
    /\ (\A t \in Threads : threads[t].call = "none")
          => \A p \in PoolIds : descriptor_set_pools[p].count = outstanding[p]

(***************************************************************************)
(* DescriptorSetPoolKey: an array of uint16_t counts, one per binding      *)
(* type, ordered by memcmp over the bytes of the array.                    *)
(***************************************************************************)
CountValues == {0, 1, 256}

DescriptorSetPoolKeys == [1..MaxBindingTypes -> CountValues]

\* The two bytes of a uint16_t in the order they lie in memory.
uint16_bytes(v, little_endian) ==
    IF little_endian THEN <<v % 256, v \div 256>> ELSE <<v \div 256, v % 256>>

\* The object representation of uniform_type.
RECURSIVE object_bytes(_, _)
object_bytes(uniform_type, little_endian) ==
    IF uniform_type = <<>> THEN <<>>
    ELSE uint16_bytes(Head(uniform_type), little_endian)
            \o object_bytes(Tail(uniform_type), little_endian)

\* A comparison that looks at the first byte only.
memcmp_first_byte(a, b) ==
    IF a = <<>> THEN 0
    ELSE IF a[1] < b[1] THEN -1 ELSE IF a[1] > b[1] THEN 1 ELSE 0

\* memcmp: the sign of the difference of the first pair of bytes that differ.
RECURSIVE memcmp(_, _)
memcmp(a, b) ==
    IF a = <<>> THEN 0
    ELSE IF a[1] < b[1] THEN -1
    ELSE IF a[1] > b[1] THEN 1
    ELSE memcmp(Tail(a), Tail(b))

\* DescriptorSetPoolKey::operator<
operator_less(key, p_other, little_endian) ==
    memcmp(object_bytes(key, little_endian), object_bytes(p_other, little_endian)) < 0

InitKeyOrder ==
    /\ InitProgram
    /\ call_args \in [function : {"operator<"}, a : DescriptorSetPoolKeys,
                      b : DescriptorSetPoolKeys, c : DescriptorSetPoolKeys,
                      little_endian : BOOLEAN]
    /\ call_ret = NoCall

\* The keys are compared with each other, as std::map does on a lookup.
CompareKeys ==
    /\ call_args.function = "operator<"
    /\ call_ret = NoCall
    /\ LET less(x, y) == operator_less(x, y, call_args.little_endian)
       IN  call_ret' = [function |-> "operator<",
                        aa |-> less(call_args.a, call_args.a),
                        ab |-> less(call_args.a, call_args.b),
                        ba |-> less(call_args.b, call_args.a),
                        bc |-> less(call_args.b, call_args.c),
                        ac |-> less(call_args.a, call_args.c)]
    /\ UNCHANGED <<call_args, programVars>>

NextKeyOrder == CompareKeys

SpecKeyOrder == InitKeyOrder /\ [][NextKeyOrder]_vars

KeysCompared == call_ret.function = "operator<"

\* The order is irreflexive, total on distinct keys, asymmetric and transitive.
StrictTotalOrder ==
    /\ ~call_ret.aa
    /\ (call_args.a # call_args.b) => (call_ret.ab \/ call_ret.ba)
    /\ ~(call_ret.ab /\ call_ret.ba)
    /\ (call_ret.ab /\ call_ret.bc) => call_ret.ac

\* x is smaller than y at the first place where the two sequences differ.
SmallerAtFirstDifference(x, y) ==
    \E i \in 1..Len(x) :
        /\ x[i] < y[i]
        /\ \A j \in 1..(i - 1) : x[j] = y[j]

\* C21: operator< on Pool Capacity Keys is a strict total order that
\* coincides with lexicographic comparison of the count vector: a < b exactly
\* when a's count is numerically smaller at the first index where the counts
\* differ.
C21_NumericLexicographicOrder ==
    KeysCompared =>
        /\ StrictTotalOrder
        /\ call_ret.ab <=> SmallerAtFirstDifference(call_args.a, call_args.b)

\* C21 as the code has it: operator< is a strict total order, the
\* lexicographic comparison of the bytes of the count vector as they lie in
\* memory; it coincides with the numeric comparison of the counts where the
\* high byte of a count comes first.
C21_ByteLexicographicOrder ==
    KeysCompared =>
        /\ StrictTotalOrder
        /\ call_ret.ab <=>
              SmallerAtFirstDifference(
                  object_bytes(call_args.a, call_args.little_endian),
                  object_bytes(call_args.b, call_args.little_endian))
        /\ ~call_args.little_endian =>
              (call_ret.ab <=> SmallerAtFirstDifference(call_args.a, call_args.b))

\* Two keys were compared whose first counts are 256 and 1, low byte first:
\* the key with 256 is the smaller one.
C21_LowByteDecides ==
    /\ KeysCompared
    /\ call_args.little_endian
    /\ call_args.a[1] = 256
    /\ call_args.b[1] = 1
    /\ call_ret.ab

(***************************************************************************)
(* The Binding-Set Pool Cache when the native allocation fails: claim C22. *)
(***************************************************************************)
\* The pools the last uniform_set_create asked a set of, in order.
AllocationAttempts ==
    SelectSeq(trace, LAMBDA entry : entry.call = "vkAllocateDescriptorSets")

\* C22: when the native allocation fails from a pool whose count is below
\* the capacity, a fresh pool is created for the key and the set is
\* allocated from it; the acquire asks at most twice, returns, and reports
\* no pool exhaustion to its caller.
C22_FreshPoolAfterFailedAllocation ==
    lastOp.op = "uniform_set_create" =>
        /\ Len(AllocationAttempts) \in {1, 2}
        /\ lastOp.result \in {"found", "new_pool", "fresh_pool"}
        /\ Len(AllocationAttempts) = 2 =>
              LET p == AllocationAttempts[1].handle
                  q == AllocationAttempts[2].handle
              IN  /\ lastOp.result = "fresh_pool"
                  /\ q # p
                  /\ trace[2] = [call |-> "vkCreateDescriptorPool", handle |-> q]
                  /\ descriptor_set_pools[q].key = descriptor_set_pools[p].key
                  /\ descriptor_set_pools[q].count = 1
                  /\ outstanding[q] = 1
                  /\ outstanding[p] < MAX_UNIFORM_POOL_ELEMENT

\* The allocation from a pool that holds sets and has room failed, and the
\* set came from a fresh pool under the same key.
C22_FailedWithRoom ==
    /\ lastOp.op = "uniform_set_create"
    /\ lastOp.result = "fresh_pool"
    /\ Len(AllocationAttempts) = 2
    /\ outstanding[AllocationAttempts[1].handle] > 0
    /\ outstanding[AllocationAttempts[1].handle] < MAX_UNIFORM_POOL_ELEMENT

(***************************************************************************)
(* The Memory Allocator Facade: small allocations are served from a pool   *)
(* per memory type index, created on first use (small_allocs_pools).       *)
(***************************************************************************)
MemoryTypes == 0..(MaxMemoryTypes - 1)

\* _find_or_create_small_allocs_pool: the pool of the memory type, created
\* and entered in small_allocs_pools when the type has none yet.
_find_or_create_small_allocs_pool(pools, p_mem_type_index) ==
    [created |-> p_mem_type_index \notin pools,
     small_allocs_pools |-> pools \cup {p_mem_type_index}]

\* An allocation below SMALL_ALLOCATION_MAX_SIZE from memory of the type.
SmallAllocation(c, p_mem_type_index) ==
    /\ ~aborted
    /\ backends[c].state = "live"
    /\ LET r == _find_or_create_small_allocs_pool(
                    backends[c].small_allocs_pools, p_mem_type_index)
       IN  /\ backends' = [backends EXCEPT
                              ![c].small_allocs_pools = r.small_allocs_pools]
           /\ trace' = IF r.created THEN <<"vmaCreatePool">> ELSE <<>>
    /\ lastOp' = Op("small_allocation", c)
    /\ UNCHANGED <<s_initialized, aborted, build, inFlight>>
    /\ UNCHANGED <<dqVars, storeVars, poolVars, swapVars>>
    /\ UNCHANGED <<fnVars, threadVars>>

NextAllocator ==
    \/ \E c \in Backends : Create(c)
    \/ \E c \in Backends, p_mem_type_index \in MemoryTypes :
          SmallAllocation(c, p_mem_type_index)
    \/ \E c \in Backends : Destroy(c)

SpecAllocator == Init /\ [][NextAllocator]_vars

\* The vmaDestroyPool calls made before the allocator is destroyed.
PoolsDestroyedBeforeAllocator(calls) ==
    IF ~Called(calls, "vmaDestroyAllocator") THEN 0
    ELSE Cardinality({i \in 1..Position(calls, "vmaDestroyAllocator") :
                         calls[i] = "vmaDestroyPool"})

\* C23: every small-allocation pool created for a memory type index is
\* destroyed exactly once, no later than the memory allocator: the teardown of
\* a context destroys as many pools as the context had created, before it
\* destroys the allocator.
C23_SmallPoolsDestroyedWithAllocator ==
    [][\A c \in Backends :
          (backends[c].state = "live" /\ backends'[c].state = "absent")
              => PoolsDestroyedBeforeAllocator(trace')
                    = Cardinality(backends[c].small_allocs_pools)]_vars

(***************************************************************************)
(* What swapchain_resize selects from the surface's report: the image      *)
(* count and the surface format, exercised on their own over every report. *)
(***************************************************************************)
PreferredFormat == SurfaceFormat("R8G8B8A8_UNORM", "SRGB_NONLINEAR")
FallbackFormat == SurfaceFormat("B8G8R8A8_UNORM", "SRGB_NONLINEAR")

\* The formats a surface may list: the two the code looks for, the preferred
\* format in another colour space, and a wide format.
ListedFormats ==
    {PreferredFormat, FallbackFormat,
     SurfaceFormat("R8G8B8A8_UNORM", "EXTENDED_SRGB_LINEAR"),
     SurfaceFormat("R16G16B16A16_SFLOAT", "EXTENDED_SRGB_LINEAR")}

\* vkGetPhysicalDeviceSurfaceFormatsKHR reports at least one format.
FormatLists == UNION {[1..n -> ListedFormats] : n \in 1..MaxFormats}

\* vkGetPhysicalDeviceSurfaceCapabilitiesKHR: at least one image, and a
\* maximum that is 0 (no limit) or not below the minimum.
ImageCountLimits ==
    {limits \in [minImageCount : 1..MaxImageCount,
                 maxImageCount : 0..MaxImageCount] :
        limits.maxImageCount = 0
        \/ limits.maxImageCount >= limits.minImageCount}

InitResizeSelection ==
    /\ InitProgram
    /\ call_args \in [function : {"swapchain_resize"},
                      capabilities : ImageCountLimits, formats : FormatLists]
    /\ call_ret = NoCall

\* The two selections of swapchain_resize, in the order of the code.
SelectForResize ==
    /\ call_args.function = "swapchain_resize"
    /\ call_ret = NoCall
    /\ call_ret' = [function |-> "swapchain_resize",
                    image_count |-> select_image_count(call_args.capabilities),
                    selected_format |-> select_surface_format(call_args.formats)]
    /\ UNCHANGED <<call_args, programVars>>

NextResizeSelection == SelectForResize

SpecResizeSelection == InitResizeSelection /\ [][NextResizeSelection]_vars

ResizeSelected == call_ret.function = "swapchain_resize"

\* C25 as stated: the preferred 8-bit sRGB format is selected when the surface
\* lists it, at any position, and the first listed format is selected when the
\* preferred format is absent.
C25_PreferredElseFirst ==
    ResizeSelected =>
        call_ret.selected_format =
            IF Contains(call_args.formats, PreferredFormat) THEN PreferredFormat
            ELSE call_args.formats[1]

\* C25, amended: R8G8B8A8_UNORM in the sRGB colour space is selected when the
\* surface lists it, at any position; when it is absent, B8G8R8A8_UNORM in the
\* sRGB colour space is selected if the surface lists it, at any position; the
\* first listed format is selected when both are absent.
C25_PreferredElseFallbackElseFirst ==
    ResizeSelected =>
        call_ret.selected_format =
            IF Contains(call_args.formats, PreferredFormat) THEN PreferredFormat
            ELSE IF Contains(call_args.formats, FallbackFormat) THEN FallbackFormat
            ELSE call_args.formats[1]

\* The preferred format is absent and the fallback is listed, not first: the
\* fallback is selected.
C25_FallbackListedLater ==
    /\ ResizeSelected
    /\ ~Contains(call_args.formats, PreferredFormat)
    /\ call_args.formats[1] # FallbackFormat
    /\ call_ret.selected_format = FallbackFormat

\* C26: the image count swapchain_resize asks for lies between the surface's
\* minimum and minimum + 1, and does not exceed the surface's maximum when the
\* surface reports one (a maximum of 0 means no limit).
C26_ImageCountWithinLimits ==
    ResizeSelected =>
        LET capabilities == call_args.capabilities
        IN  /\ call_ret.image_count >= capabilities.minImageCount
            /\ call_ret.image_count <= capabilities.minImageCount + 1
            /\ capabilities.maxImageCount > 0 =>
                   call_ret.image_count <= capabilities.maxImageCount

\* The surface allows no more than its minimum: the count asked for is capped
\* from minimum + 1 to the maximum.
C26_CappedAtMaximum ==
    /\ ResizeSelected
    /\ call_args.capabilities.maxImageCount = call_args.capabilities.minImageCount
    /\ call_ret.image_count = call_args.capabilities.maxImageCount

(***************************************************************************)
(* The queue families and the score of the device a context was created    *)
(* on, read off the context after the constructor has returned.            *)
(***************************************************************************)
\* The context is live on a device that was enumerated.
OnEnumeratedDevice(c) ==
    /\ backends[c].state = "live"
    /\ backends[c].physical_device.name # "garbage"

\* The families of the device, by index, that have the capability.
FamiliesWith(dev, cap) ==
    {i - 1 : i \in {j \in DOMAIN dev.families : cap \in dev.families[j]}}

\* C27: when the device has a transfer-capable family other than the graphics
\* family, the transfer family is such a family; only when there is none is
\* the transfer family the graphics family.
C27_DistinctTransferFamilyPreferred ==
    \A c \in Backends :
        OnEnumeratedDevice(c) =>
            LET indices == backends[c].indices
                distinct == FamiliesWith(backends[c].physical_device, "T")
                            \ {indices.graphics_family}
            IN  IF distinct # {} THEN indices.transfer_family \in distinct
                ELSE indices.transfer_family = indices.graphics_family

\* The devices that passed the completeness test of the constructor that has
\* just returned a context, with their scores.
CandidatesOfCreate ==
    Candidates(lastOp.enumerated, 1, backends[lastOp.backend].required_features,
               backends[lastOp.backend].surface)

JustCreated ==
    /\ lastOp.op = "create"
    /\ lastOp.result = "ok"
    /\ OnEnumeratedDevice(lastOp.backend)

ComputeOnlyFamilies(dev) == FamiliesWith(dev, "C") \ FamiliesWith(dev, "G")

\* C28: when a distinct compute queue is required, the compute family of the
\* device supports compute and not graphics, and a device without such a
\* family is not among the candidates the device is selected from.
C28_DistinctComputeFamily ==
    /\ \A c \in Backends :
          (/\ OnEnumeratedDevice(c)
           /\ "DISTINCT_COMPUTE_QUEUE" \in backends[c].required_features) =>
              backends[c].indices.compute_family
                  \in ComputeOnlyFamilies(backends[c].physical_device)
    /\ (/\ JustCreated
        /\ "DISTINCT_COMPUTE_QUEUE"
               \in backends[lastOp.backend].required_features) =>
           \A k \in DOMAIN CandidatesOfCreate :
               /\ ComputeOnlyFamilies(CandidatesOfCreate[k].device) # {}
               /\ CandidatesOfCreate[k].indices.compute_family
                      \in ComputeOnlyFamilies(CandidatesOfCreate[k].device)

\* A distinct compute queue was required and two devices were enumerated: the
\* one without a compute-only family was passed over, and the context is on
\* the other, with a compute family that lacks graphics.
C28_DeviceWithoutComputeOnlyFamilyExcluded ==
    /\ JustCreated
    /\ "DISTINCT_COMPUTE_QUEUE" \in backends[lastOp.backend].required_features
    /\ \E i \in DOMAIN lastOp.enumerated :
          /\ ComputeOnlyFamilies(lastOp.enumerated[i]) = {}
          /\ lastOp.enumerated[i].features
    /\ Len(CandidatesOfCreate) = 1
    /\ backends[lastOp.backend].indices.compute_family
           # backends[lastOp.backend].indices.graphics_family

\* C29: among the devices that meet every hard requirement, a discrete device
\* scores above an integrated one, and between devices of one type the one with
\* the greater maximum image dimension scores higher.
C29_DiscreteOutranksIntegrated ==
    JustCreated =>
        LET cands == CandidatesOfCreate
            suitable == {k \in DOMAIN cands : cands[k].score > 0}
        IN  \A a, b \in suitable :
               /\ (cands[a].device.discrete /\ ~cands[b].device.discrete) =>
                      cands[a].score > cands[b].score
               /\ (cands[a].device.discrete = cands[b].device.discrete) =>
                      (cands[a].score > cands[b].score
                       <=> cands[a].device.maxImageDimension2D
                               > cands[b].device.maxImageDimension2D)

(***************************************************************************)
(* The native queue behind a logical queue: vkGetDeviceQueue(device,       *)
(* family, 0, ...) returns the same handle for every type of one family.   *)
(***************************************************************************)
\* The thread is inside vkQueueSubmit on the queue of its call.
InNativeSubmit(t) ==
    /\ threads[t].arg \in QueueTypes
    /\ NextStep(t) = "vkQueueSubmit_return"

\* C30: no two threads are inside a native submission to the same native
\* queue at once, also when two logical queues are the same native queue of
\* one family and each is locked through its own mutex.
C30_NativeQueueNeverSharedConcurrently ==
    \A t, u \in Threads :
        (t # u /\ InNativeSubmit(t) /\ InNativeSubmit(u)) =>
            queue_family(threads[t].arg) # queue_family(threads[u].arg)

(***************************************************************************)
(* The slots of the store that are taken, against the images that live.    *)
(***************************************************************************)
\* The slots of the pages of the store that are not on its free list.
OccupiedSlots ==
    {slot \in Slots : slot <= resources_allocator.pages * PageSize} \ FreeSlots

\* C32: image_free gives back the slot the image was allocated in: after any
\* sequence of image_create and image_free calls the store has as many taken
\* slots as there are images created and not yet freed.
C32_OccupiedSlotsAreLiveImages ==
    ~aborted => Cardinality(OccupiedSlots) = Cardinality(LiveSlots("image"))

(***************************************************************************)
(* attach_surface.  The surface member is "null", "live" or "destroyed":   *)
(* the last is a handle that vkDestroySurfaceKHR has already been given.   *)
(***************************************************************************)
AttachOp(c, result) ==
    [op |-> "attach_surface", backend |-> c, result |-> result,
     pending |-> inFlight, enumerated |-> <<>>]

\* attach_surface: the current surface, if the member is not null, is
\* destroyed; the member is written only when the new surface is created.
AttachSurface(c, p_connection_handle, p_window_handle, native_ok) ==
    /\ ~aborted
    /\ backends[c].state = "live"
    /\ IF ~backends[c].swapchain_supported
       THEN /\ lastOp' = AttachOp(c, "SWAPCHAIN_NOT_SUPPORTED")
            /\ trace' = <<>>
            /\ UNCHANGED backends
       ELSE LET destroyed == IF backends[c].surface # "null"
                             THEN <<"vkDestroySurfaceKHR">> ELSE <<>>
                after_destroy == IF backends[c].surface # "null"
                                 THEN "destroyed" ELSE "null"
            IN  IF _create_surface_platform_specific(
                       p_connection_handle, p_window_handle, native_ok)
                THEN /\ lastOp' = AttachOp(c, "NONE")
                     /\ trace' = destroyed \o <<"vkCreateSurfaceKHR">>
                     /\ backends' = [backends EXCEPT ![c].surface = "live"]
                ELSE /\ lastOp' = AttachOp(c, "INVALID_COMPOSITOR")
                     /\ trace' = destroyed
                     /\ backends' = [backends EXCEPT ![c].surface = after_destroy]
    /\ UNCHANGED <<s_initialized, aborted, build, inFlight>>
    /\ UNCHANGED <<dqVars, storeVars, poolVars, swapVars>>
    /\ UNCHANGED <<fnVars, threadVars>>

NextSurface ==
    \/ \E c \in Backends : Create(c)
    \/ \E c \in Backends, p_connection_handle, p_window_handle, native_ok \in BOOLEAN :
          AttachSurface(c, p_connection_handle, p_window_handle, native_ok)
    \/ \E c \in Backends : Destroy(c)

SpecSurface == Init /\ [][NextSurface]_vars

\* C33: no native surface is destroyed twice, over any sequence of
\* attach_surface calls followed by teardown: a step never hands
\* vkDestroySurfaceKHR a surface that has been destroyed before.
C33_SurfaceDestroyedAtMostOnce ==
    [][\A c \in Backends :
          (backends[c].state = "live" /\ backends[c].surface = "destroyed") =>
              ~(/\ lastOp'.backend = c
                /\ lastOp'.op \in {"attach_surface", "destroy"}
                /\ Made(trace', "vkDestroySurfaceKHR"))]_vars

\* The families the constructor retrieves queue 0 of.
RetrievedFamilies(indices) ==
    {indices.graphics_family, indices.transfer_family,
     indices.compute_family, indices.present_family}

\* C34: every family the context retrieves a queue from (graphics, transfer,
\* compute, present) is one of the families a queue was requested for when
\* the logical device was created.
C34_RetrievedFamiliesWereRequested ==
    \A c \in Backends :
        OnEnumeratedDevice(c) =>
            RetrievedFamilies(backends[c].indices) \subseteq backends[c].queue_families

C36_ImageOnlyFromReadySwapchain ==
    (lastOp.op = "swapchain_acquire_image" /\ lastOp.returned.kind = "image") =>
        /\ before.initialized
        /\ lastOp.returned.index < Len(before.images)

\* swapchain_resize has stopped before a new native swapchain existed: the
\* query of the surface failed, or vkCreateSwapchainKHR did.
ResizeFailedEarly ==
    /\ lastOp.op = "swapchain_resize"
    /\ lastOp.swapchain # 0
    /\ lastOp.result = "abort"
    /\ \A i \in 1..Len(trace) :
          trace[i].call = "vkCreateSwapchainKHR" => trace[i].handle = VK_NULL_HANDLE
    /\ \A i \in 1..Len(trace) : trace[i].call # "vkCreateImageView"

\* C37: when the query of the surface capabilities or the creation of the
\* native swapchain fails in swapchain_resize, the native handle, the images
\* and their views, the extent, the format and the ready flag of the swapchain
\* object are as they were, and the views are still live.
C37_FailedResizeLeavesSwapchain ==
    ResizeFailedEarly =>
        /\ swapchains[lastOp.swapchain] = before
        /\ ViewsOf(before) \subseteq vk_objects.image_views

\* vkCreateSwapchainKHR has failed in the resize of a ready swapchain.
C37_CreateFailedOnReadySwapchain ==
    /\ ResizeFailedEarly
    /\ before.initialized
    /\ \E i \in 1..Len(trace) : trace[i].call = "vkCreateSwapchainKHR"
    /\ swapchains[lastOp.swapchain].initialized

(***************************************************************************)
(* image_create with initial data: the commands its lambda records, and    *)
(* the layout of every mip level as the commands are executed in order.    *)
(***************************************************************************)
GL_REMAINING_MIP_LEVELS == UINT32_MAX

RECURSIVE floor_log2(_)
floor_log2(n) == IF n <= 1 THEN 0 ELSE 1 + floor_log2(n \div 2)

\* _image_create: the number of mip levels of the image.
mip_levels_of(p_size, p_mipmapped) ==
    IF p_mipmapped THEN floor_log2(Max(p_size.x, p_size.y)) + 1 ELSE 1

transition_image(p_current_layout, p_new_layout, p_base_mip_level, p_level_count) ==
    [command |-> "transition_image", current |-> p_current_layout,
     new |-> p_new_layout, base |-> p_base_mip_level, count |-> p_level_count]

copy_buffer_to_image(mip_level) ==
    [command |-> "copy_buffer_to_image", dst |-> mip_level]

copy_image_to_image(p_src_mip_level, p_dst_mip_level) ==
    [command |-> "copy_image_to_image", src |-> p_src_mip_level,
     dst |-> p_dst_mip_level]

\* The loop of _generate_image_mipmaps from level i on.
RECURSIVE generate_mipmaps_loop(_, _)
generate_mipmaps_loop(i, mip_levels) ==
    IF i >= mip_levels THEN <<>>
    ELSE <<transition_image("TRANSFER_DST_OPTIMAL", "TRANSFER_SRC_OPTIMAL", i - 1, 1),
           copy_image_to_image(i - 1, i),
           transition_image("TRANSFER_SRC_OPTIMAL", "SHADER_READ_ONLY_OPTIMAL", i - 1, 1)>>
         \o generate_mipmaps_loop(i + 1, mip_levels)

\* The mipmaps generated without the transition of the last level.
_generate_image_mipmaps_last_level_left(mip_levels) == generate_mipmaps_loop(1, mip_levels)

\* _generate_image_mipmaps: the loop, then the transition of the last level.
_generate_image_mipmaps(mip_levels) == generate_mipmaps_loop(1, mip_levels) \o <<transition_image("TRANSFER_DST_OPTIMAL", "SHADER_READ_ONLY_OPTIMAL", mip_levels - 1, 1)>>

\* The commands the lambda of image_create records, in order.
image_upload_commands(p_size, p_mipmapped) ==
    <<transition_image("UNDEFINED", "TRANSFER_DST_OPTIMAL", 0, GL_REMAINING_MIP_LEVELS),
      copy_buffer_to_image(0)>>
    \o (IF p_mipmapped
        THEN _generate_image_mipmaps(mip_levels_of(p_size, p_mipmapped))
        ELSE <<transition_image("TRANSFER_DST_OPTIMAL", "SHADER_READ_ONLY_OPTIMAL",
                                0, GL_REMAINING_MIP_LEVELS)>>)

\* The mip levels a transition covers.
TransitionLevels(entry, mip_levels) ==
    IF entry.count = GL_REMAINING_MIP_LEVELS THEN entry.base..(mip_levels - 1)
    ELSE entry.base..(entry.base + entry.count - 1)

\* A command is executed against the layouts the levels are in: whether what
\* it declares is true of them.
CommandMatches(entry, layouts) ==
    CASE entry.command = "transition_image" ->
            \A level \in TransitionLevels(entry, Len(layouts)) :
                layouts[level + 1] = entry.current
      [] entry.command = "copy_buffer_to_image" ->
            layouts[entry.dst + 1] = "TRANSFER_DST_OPTIMAL"
      [] entry.command = "copy_image_to_image" ->
            layouts[entry.dst + 1] = "TRANSFER_DST_OPTIMAL"

\* The layouts after the command.
CommandEffect(entry, layouts) ==
    IF entry.command = "transition_image"
    THEN [level \in 1..Len(layouts) |->
             IF level - 1 \in TransitionLevels(entry, Len(layouts))
             THEN entry.new ELSE layouts[level]]
    ELSE layouts

ImageSizes == [x : 1..MaxImageSize, y : 1..MaxImageSize]

InitImageUpload ==
    /\ InitProgram
    /\ call_args \in [function : {"image_create"}, size : ImageSizes,
                      mipmapped : BOOLEAN]
    /\ call_ret = NoCall

\* The lambda has run: the commands are recorded, none is executed yet, and
\* every level of the new image is in UNDEFINED.
RecordImageUpload ==
    /\ call_args.function = "image_create"
    /\ call_ret = NoCall
    /\ call_ret' =
         [function |-> "image_create",
          commands |-> image_upload_commands(call_args.size, call_args.mipmapped),
          executed |-> 0,
          layouts |-> [level \in 1..mip_levels_of(call_args.size, call_args.mipmapped)
                         |-> "UNDEFINED"],
          mismatched |-> {}]
    /\ UNCHANGED <<call_args, programVars>>

\* The queue executes the next recorded command.
ExecuteImageCommand ==
    /\ call_ret.function = "image_create"
    /\ call_ret.executed < Len(call_ret.commands)
    /\ LET k == call_ret.executed + 1
           entry == call_ret.commands[k]
       IN  call_ret' =
             [call_ret EXCEPT
                !.executed = k,
                !.layouts = CommandEffect(entry, call_ret.layouts),
                !.mismatched = IF CommandMatches(entry, call_ret.layouts)
                               THEN @ ELSE @ \cup {k}]
    /\ UNCHANGED <<call_args, programVars>>

NextImageUpload == RecordImageUpload \/ ExecuteImageCommand

SpecImageUpload == InitImageUpload /\ [][NextImageUpload]_vars

\* C38: in image_create with initial data every transition names as current
\* the layout its levels are in, every copy writes a level that is in
\* TRANSFER_DST_OPTIMAL, and once the submission has been executed every mip
\* level is in SHADER_READ_ONLY_OPTIMAL, with and without mipmaps.
C38_LayoutsTrackedThroughUpload ==
    call_ret.function = "image_create" =>
        /\ call_ret.mismatched = {}
        /\ call_ret.executed = Len(call_ret.commands) =>
               \A level \in 1..Len(call_ret.layouts) :
                   call_ret.layouts[level] = "SHADER_READ_ONLY_OPTIMAL"

\* The upload of a mipmapped image of four levels has been executed to the
\* end.
C38_FourLevelsUploaded ==
    /\ call_ret.function = "image_create"
    /\ call_args.mipmapped
    /\ Len(call_ret.layouts) = 4
    /\ call_ret.executed = Len(call_ret.commands)
    /\ call_ret.layouts[4] = "SHADER_READ_ONLY_OPTIMAL"

(***************************************************************************)
(* The fence of an immediate-submit channel at the moment it is handed to  *)
(* vkQueueSubmit.                                                          *)
(***************************************************************************)
\* The thread is about to hand the fence of its channel to vkQueueSubmit.
HandsFenceToSubmit(t) ==
    /\ threads[t].call \in {"command_immediate_submit", "image_create"}
    /\ NextStep(t) = "vkQueueSubmit"

\* C39: the fence of an immediate-submit channel is unsignaled whenever it is
\* handed to a queue submission, from the first immediate submit after the
\* context is created on.
C39_ImmediateFenceUnsignaledAtSubmit ==
    \A t \in Threads :
        HandsFenceToSubmit(t) => imm[FenceOf(t)].fence = "unsignaled"

(***************************************************************************)
(* The frame loop of the testbed's main: claim C31.  call_ret holds where  *)
(* main is, the state of its frame fence and whether a submission that     *)
(* will signal the fence is with the GPU.  A fence is signaled when the    *)
(* work submitted with it completes, fence_wait blocks until the fence is  *)
(* signaled and fence_reset unsignals it.                                  *)
(***************************************************************************)
MainAt(pc, frame_fence, submitted) ==
    [function |-> "main", pc |-> pc, frame_fence |-> frame_fence, submitted |-> submitted]

\* main up to the loop: the backend is created for the window.
MainCreate ==
    /\ call_ret.pc = "setup"
    /\ backends[1].state # "live"
    /\ CreateFrom(1, ThreadContexts)

\* Then the swapchain is created.
MainSwapchainCreate ==
    /\ call_ret.pc = "setup"
    /\ swapchains[1].state # "allocated"
    /\ swapchain_create(1, 1)

\* And resized once; the result of the resize is not looked at.
MainSwapchainResize ==
    /\ call_ret.pc = "setup"
    /\ swapchains[1].state = "allocated"
    /\ lastOp.op = "swapchain_create"
    /\ \E inp \in ResizeInputs : swapchain_resize(1, 1, inp)

\* fence_create() with its default argument, then the loop is entered.
MainEnterLoop ==
    /\ ~aborted
    /\ call_ret.pc = "setup"
    /\ lastOp.op = "swapchain_resize"
    /\ call_ret' = MainAt("events", IF p_create_signaled_default THEN "signaled" ELSE "unsignaled", FALSE)
    /\ UNCHANGED <<call_args, programVars>>

\* A window resize event: device_wait, which returns once the GPU is idle,
\* then swapchain_resize.
MainResizeEvent ==
    /\ call_ret.pc = "events"
    /\ ~call_ret.submitted
    /\ \E inp \in ResizeInputs : swapchain_resize(1, 1, inp)

\* The quit event ends the loop.
MainQuit ==
    /\ ~aborted
    /\ call_ret.pc = "events"
    /\ call_ret' = [call_ret EXCEPT !.pc = "quit"]
    /\ UNCHANGED <<call_args, programVars>>

\* No more events: the frame starts.
MainEventsDone ==
    /\ ~aborted
    /\ call_ret.pc = "events"
    /\ call_ret' = [call_ret EXCEPT !.pc = "fence_wait"]
    /\ UNCHANGED <<call_args, programVars>>

\* fence_wait(frame_fence) returns once the fence is signaled.
MainFenceWait ==
    /\ ~aborted
    /\ call_ret.pc = "fence_wait"
    /\ call_ret.frame_fence = "signaled"
    /\ call_ret' = [call_ret EXCEPT !.pc = "fence_reset"]
    /\ UNCHANGED <<call_args, programVars>>

\* fence_reset(frame_fence)
MainFenceReset ==
    /\ ~aborted
    /\ call_ret.pc = "fence_reset"
    /\ call_ret' = [call_ret EXCEPT !.pc = "acquire", !.frame_fence = "unsignaled"]
    /\ UNCHANGED <<call_args, programVars>>

\* swapchain_acquire_image; when it fails the frame is skipped with continue.
MainAcquire ==
    /\ call_ret.pc = "acquire"
    /\ acquire_image_call(1, 1)
    /\ call_ret' = [call_ret EXCEPT !.pc = IF lastOp'.returned.kind = "image"
                                           THEN "queue_submit" ELSE "events"]
    /\ UNCHANGED <<call_args, threadVars>>

\* The commands are recorded and queue_submit hands them to the GPU with the
\* frame fence.
MainQueueSubmit ==
    /\ ~aborted
    /\ call_ret.pc = "queue_submit"
    /\ call_ret' = [call_ret EXCEPT !.pc = "queue_present", !.submitted = TRUE]
    /\ UNCHANGED <<call_args, programVars>>

\* queue_present, then the next iteration.
MainQueuePresent ==
    /\ ~aborted
    /\ call_ret.pc = "queue_present"
    /\ call_ret' = [call_ret EXCEPT !.pc = "events"]
    /\ UNCHANGED <<call_args, programVars>>

\* The GPU completes the submitted frame and signals its fence.
GpuFrameComplete ==
    /\ ~aborted
    /\ call_ret.submitted
    /\ call_ret' = [call_ret EXCEPT !.submitted = FALSE, !.frame_fence = "signaled"]
    /\ UNCHANGED <<call_args, programVars>>

NextFrameLoop ==
    \/ MainCreate
    \/ MainSwapchainCreate
    \/ MainSwapchainResize
    \/ MainEnterLoop
    \/ MainResizeEvent
    \/ MainQuit
    \/ MainEventsDone
    \/ MainFenceWait
    \/ MainFenceReset
    \/ MainAcquire
    \/ MainQueueSubmit
    \/ MainQueuePresent
    \/ GpuFrameComplete

InitFrameLoop ==
    /\ InitProgram
    /\ build = [debug |-> FALSE, win32 |-> FALSE]
    /\ call_args = [function |-> "main"]
    /\ call_ret = MainAt("setup", "none", FALSE)

SpecFrameLoop == InitFrameLoop /\ [][NextFrameLoop]_vars

\* C31: in the frame loop every fence_wait eventually returns: whenever main
\* is at fence_wait, the frame fence is signaled or a submission that will
\* signal it is with the GPU, also after an iteration in which
\* swapchain_acquire_image failed and the frame was skipped.
C31_WaitedFenceGetsSignaled ==
    call_ret.pc = "fence_wait" => (call_ret.frame_fence = "signaled" \/ call_ret.submitted)

\* main is at fence_wait after a frame skipped because the acquire failed.
C31_WaitAfterSkippedFrame ==
    /\ call_ret.pc = "fence_wait"
    /\ lastOp.op = "swapchain_acquire_image"
    /\ lastOp.returned.kind = "err"

====
